---- MODULE Spec2Model ----
(***************************************************************************)
(* State-machine model of the RIMP telemetry pipeline:                     *)
(*   - TelemetryCollector            (src/telemetry/collector.py)          *)
(*   - collector-driven TelemetryStream (src/telemetry/streaming.py)       *)
(*   - queue-based TelemetryStream   (src/telemetry/stream.py)             *)
(*   - DataCollector / TelemetryService (src/telemetry/core/)              *)
(*   - EventEmitter                  (src/telemetry/events.py)             *)
(*   - MemoryStorage / FileStorage   (src/telemetry/storage.py)            *)
(* Records are identified by the number of their creation (the uuid of the *)
(* code); a TelemetryData value is a pair of sequences of such numbers.    *)
(***************************************************************************)
EXTENDS Integers, Sequences, FiniteSets, TLC

\* ---------------------------------------------------------------- bounds

\* Records created by collect_event / collect_metric in one behaviour of the
\* collector alone (SpecCollector), of the pipeline (Spec) and of the pipeline
\* beside the service (SpecNotify, SpecIngest).
MaxRecords == 4
MaxStreamRecords == 3
MaxNotifyRecords == 2
MaxIngestRecords == 1
MaxLifecycleRecords == 1
\* config.buffer_size ranges over 1 .. MaxBufferSize.
MaxBufferSize == 3
\* Listeners registered by the application itself (besides the stream's), for
\* the collector alone and for the whole pipeline.
MaxUserListeners == 2
MaxStreamUserListeners == 1
\* Length of TelemetryStream._consumers, in the pipeline specifications and
\* in the one of the sinks (SpecSinks, with its own number of records).
MaxConsumers == 1
MaxSinkConsumers == 2
MaxSinkRecords == 2
\* Thread objects a TelemetryStream (streaming.py) can have alive at a time,
\* and the number of them the pipeline specifications use.
MaxFlowRecords == 3
MaxFlowBuffer == 4
SmallFlowBuffer == 2
MaxLoops == 2
MaxPipelineLoops == 1
\* Deliveries of one record to one sink are counted up to this number.
CountCap == 2

\* TelemetryService: config buffer_size ranges over 1 .. MaxSvcBuffer, events
\* created by emit, callbacks registered with the DataCollector.
MaxSvcBuffer == 2
MaxEmits == 3
MaxBatch == 2
MaxCallbacks == 2
\* The same for the service beside the pipeline (SpecIngest).
MaxIngestEmits == 1
MaxIngestCallbacks == 1

\* Queue-based TelemetryStream (stream.py): buffer_size ranges over
\* 1 .. MaxQueueSize, items pushed, subscribers, worker threads alive at a time.
MaxQueueSize == 2
MaxPushes == 3
MaxSubscribers == 2
MaxWorkers == 2
\* Worker threads the specification of the stream alone uses.
MaxQueueWorkers == 1
\* Items pushed and subscribers beside the collector-driven stream
\* (SpecLifecycle).
MaxBufferEmits == 2
MaxBufferPushes == 3
MaxLifecyclePushes == 1
MaxLifecycleSubscribers == 1

\* EventEmitter (events.py): events emitted and listeners registered in one
\* behaviour.
MaxEmitted == 3
MaxEmitterListeners == 2

\* MemoryStorage / FileStorage (storage.py): records handed to store, lines
\* of the file, seconds of the timestamps and the largest limit given to
\* retrieve in one behaviour.
MaxStored == 3
MaxBatchRecords == 2
MaxLines == 4
MaxTime == 1
MaxLimit == 2
MaxBadLines == 1

\* ------------------------------------------------------------- universes

Producers == {"p1", "p2"}
Kinds == {"event", "metric"}
ListenerNames == {"stream", "user"}
ConsumerNames == {"c1", "c2"}
LoopIds == 1 .. MaxLoops
Ids == 1 .. MaxRecords
ServiceThreads == {"s1", "s2"}
Pushers == {"q1", "q2"}
Retrievers == {"r1", "r2"}
EventIds == 1 .. MaxEmits
WorkerIds == 1 .. MaxWorkers
QueueIds == 1 .. MaxPushes
EventTypes == {"project.created", "task.created"}
\* datetime values: seconds and microseconds (all naive, as datetime.utcnow()).
Micros == {0, 500000}
Times == [sec : 1 .. MaxTime, micro : Micros]
\* What tells two records of a kind apart beside id and timestamp: the
\* event_type of an event (models.EventType), the unit of a metric.
Extras(kind) == IF kind = "event" THEN {"EventType.INFO", "EventType.ERROR"}
                ELSE {"None"}
\* Optional arguments: << >> is None, <<v>> is the value v.
OptTimes == {<< >>} \cup {<<t>> : t \in Times}
OptLimits == {<< >>} \cup {<<n>> : n \in 0 .. MaxLimit}

EmptyData == [events |-> << >>, metrics |-> << >>]
NoFault == [store |-> FALSE, bad |-> {}]
NoRec == [id |-> 0, kind |-> "none"]

VARIABLES
    built,       \* the components the process has constructed
    \* TelemetryCollector
    config,      \* [enabled, realtime_mode, buffer_size], fixed at construction
    nextId,      \* number of records created so far
    buffer,      \* self._buffer : TelemetryData
    lock,        \* self._lock : "free" or the thread holding it
    listeners,   \* self._listeners
    pc,          \* position of each producer inside collect_event/_metric
    cur,         \* the record a producer is collecting
    snap,        \* the snapshot _notify_listeners made for a producer
    li,          \* index of the listener a producer is notifying
    invoked,     \* listener positions invoked in the producer's current call
    raisedAt,    \* listener positions that raised in the producer's current call
    ret,         \* the value the last completed collect_event/_metric call returned
    recTags,     \* per record, the tags attribute it was built with
    clock,       \* the number of datetime.utcnow() readings made so far
    curTime,     \* the timestamp of the record a producer has built
    recTime,     \* per record, the timestamp it was built with
    \* the application thread (flush / start / stop / registration calls)
    appPc,
    appBatch,    \* the TelemetryData the last flush() call returned
    \* TelemetryStream (streaming.py)
    consumers,   \* self._consumers
    stopEvent,   \* self._stop_event
    threadRef,   \* self._thread : 0 (None) or a loop thread
    loopPc,      \* position of each loop thread in _stream_loop
    loopData,    \* the local `data` of each loop thread
    loopFault,   \* which sinks raised in the loop thread's last delivery
    joinAlive,   \* what the join of the pending stop() found: "none" (no thread to join), "dead" or "alive"
    stopRet,     \* the value the stop() call that just returned reports
    \* observation of the run
    returned,    \* per record, the number of flush() calls that returned it
    stored,      \* per record, the number of storage.store calls holding it
    consumed,    \* per consumer and record, the number of calls holding it
    stopSnap,    \* records 1 .. stopSnap were collected when the pending stop() was called
    \* TelemetryService and its DataCollector (telemetry/core)
    svcConfig,   \* the dictionary handed to TelemetryService.__init__
    svcRunning,  \* TelemetryService._running
    svcNext,     \* number of TelemetryEvents emit has built
    dcBuffer,    \* DataCollector._buffer : Queue(maxsize=buffer_size)
    dcCount,     \* DataCollector._event_count
    dcCallbacks, \* DataCollector._callbacks
    sPc,         \* position of each thread inside emit / collect
    sCur,        \* the event the thread is collecting
    sCi,         \* index of the callback the thread is calling
    sInvoked,    \* callback positions called in the thread's current call
    sRaisedAt,   \* callback positions that raised in the thread's current call
    sRet,        \* the value the thread's emit call returns: << >> or <<value>>
    rPc,         \* position of each thread calling get_events / retrieve
    rSize,       \* the batch_size of that call
    rEvents,     \* the local list `events` of that retrieve call
    taken,       \* per event, the number of times a retrieve call got it
    stats,       \* a get_stats call: its position and the values it has read
    \* queue-based TelemetryStream (stream.py)
    queueSize,    \* buffer_size given to __init__
    pushed,       \* number of items built by the callers of push_event/_metric
    event_queue,  \* self._event_queue
    metric_queue, \* self._metric_queue
    subscribers,  \* self._subscribers
    running,      \* self._running
    qStopEvent,   \* self._stop_event
    workerThread, \* self._worker_thread : 0 (None) or a worker thread
    qAppPc,       \* position of the thread calling start / stop
    qJoinAlive,   \* the same for the worker: "none", "dead" or "alive"
    qStopRet,     \* the value the stop() call that just returned reports
    pPc,          \* position of each pushing thread inside push_event/_metric
    pItem,        \* the item the thread is pushing
    pFull,        \* the first put_nowait of the call found the queue full
    pEvicted,     \* the item the call's get_nowait removed (0: none)
    pEnqueued,    \* a put_nowait of the call has succeeded
    wPc,          \* position of each worker thread in _stream_worker
    wItem,        \* the item the worker has dequeued
    wSi,          \* index of the subscriber the worker is calling
    wCalled,      \* subscriber positions called for the current item, in order
    wRaisedAt,    \* subscriber positions that raised for the current item
    notified,     \* per item, the number of _notify_subscribers calls completed
    evicted,      \* the items removed by the get_nowait of a push
    \* EventEmitter (events.py)
    emListeners,  \* self._listeners : event type -> list of callbacks
    emEvents,     \* self._events
    emitted,      \* every event an emit call was given, in call order
    emCleared,    \* number of events emitted before the last clear()
    ePc,          \* position of the caller inside emit / get_events
    eCur,         \* the event being emitted
    eCi,          \* index of the callback emit is calling
    eInvoked,     \* callback positions called by the current emit
    eRaisedAt,    \* callback positions that raised in the current emit
    eRet,         \* how the emit call ended: "None" or "raised"
    eArg,         \* the argument of the get_events call
    eGot,         \* the list the get_events call returned
    \* MemoryStorage / FileStorage (storage.py)
    memEvents,    \* MemoryStorage._events
    memMetrics,   \* MemoryStorage._metrics
    fileExists,   \* whether the file at FileStorage.file_path exists
    fileLines,    \* the lines of that file
    written,      \* every record a store call was given, in call order
    memCleared,   \* number of records stored before the last clear()
    intact,       \* ids of the records whose line of the file is undamaged
    stPc,         \* position of the caller of retrieve: "idle" or "got"
    stReq,        \* the arguments of the retrieve call
    stRes         \* what the retrieve call returned

colVars == <<config, nextId, buffer, lock, listeners, pc, cur, snap, li,
             invoked, raisedAt, ret>>
appVars == <<appPc, appBatch>>
strVars == <<consumers, stopEvent, threadRef, loopPc, loopData, loopFault,
             stopSnap, joinAlive, stopRet>>
obsVars == <<returned, stored, consumed>>
getVars == <<rPc, rSize, rEvents, taken, stats>>
svcVars == <<svcConfig, svcRunning, svcNext, dcBuffer, dcCount, dcCallbacks,
             sPc, sCur, sCi, sInvoked, sRaisedAt, sRet, getVars>>
queVars == <<queueSize, pushed, event_queue, metric_queue, subscribers, running,
             qStopEvent, workerThread, qAppPc, qJoinAlive, qStopRet, pPc, pItem,
             pFull, pEvicted, pEnqueued, wPc, wItem, wSi, wCalled, wRaisedAt,
             notified, evicted>>
stopObs == <<joinAlive, stopRet>>
qAppVars == <<qAppPc, qJoinAlive, qStopRet>>
pushVars == <<pPc, pItem, pFull, pEvicted, pEnqueued>>
workVars == <<wPc, wItem, wSi, wCalled, wRaisedAt>>
emVars == <<emListeners, emEvents, emitted, emCleared, ePc, eCur, eCi, eInvoked,
            eRaisedAt, eRet, eArg, eGot>>
stoVars == <<memEvents, memMetrics, fileExists, fileLines, written, memCleared,
             intact, stPc, stReq, stRes>>
timeVars == <<clock, curTime, recTime>>
vars == <<built, colVars, appVars, strVars, obsVars, recTags, timeVars, svcVars, queVars,
          emVars, stoVars>>

\* A step of the collector or its stream: the process has constructed them,
\* and the step touches nothing of the service; likewise for the service.
pipeVars == <<colVars, appVars, strVars, obsVars, recTags, timeVars>>
InCollect ==
    "pipeline" \in built /\ UNCHANGED <<built, svcVars, queVars, emVars, stoVars>>
InPipeline == InCollect /\ UNCHANGED <<recTags, timeVars>>
InService ==
    "service" \in built /\ UNCHANGED <<built, pipeVars, queVars, emVars, stoVars>>
InQueue ==
    "queue" \in built /\ UNCHANGED <<built, pipeVars, svcVars, emVars, stoVars>>
InEmitter ==
    "emitter" \in built
        /\ UNCHANGED <<built, pipeVars, svcVars, queVars, stoVars>>
othVars == <<pipeVars, svcVars, queVars, emVars>>
InMemory == "memory" \in built /\ UNCHANGED <<built, othVars>>
InFile == "file" \in built /\ UNCHANGED <<built, othVars>>

\* ------------------------------------------------------------- helpers

Range(s) == {s[i] : i \in 1 .. Len(s)}
DataIds(d) == Range(d.events) \cup Range(d.metrics)
Bump(n) == IF n < CountCap THEN n + 1 ELSE CountCap
RECURSIVE RemoveFirst(_, _)
RemoveFirst(s, x) ==
    IF s = << >> THEN << >>
    ELSE IF Head(s) = x THEN Tail(s)
    ELSE <<Head(s)>> \o RemoveFirst(Tail(s), x)
Count(s, x) == Cardinality({i \in 1 .. Len(s) : s[i] = x})

\* ---------------------------------------------------- queue.Queue

\* queue.Queue(maxsize=size): put_nowait raises Full on a full queue (a
\* maxsize <= 0 means no limit), get_nowait and get(timeout) raise Empty on
\* an empty one (ok = FALSE).
put_always(q, x, size) == [ok |-> TRUE, q |-> Append(q, x)]
put_nowait(q, x, size) ==
    IF size <= 0 \/ Len(q) < size THEN [ok |-> TRUE, q |-> Append(q, x)]
    ELSE [ok |-> FALSE, q |-> q]
get_newest(q) ==
    IF q = << >> THEN [ok |-> FALSE, item |-> 0, q |-> q]
    ELSE [ok |-> TRUE, item |-> q[Len(q)], q |-> SubSeq(q, 1, Len(q) - 1)]
get_nowait(q) ==
    IF q = << >> THEN [ok |-> FALSE, item |-> 0, q |-> q]
    ELSE [ok |-> TRUE, item |-> Head(q), q |-> Tail(q)]

\* ---------------------------------------------------- TelemetryData (models.py)

\* add_event / add_metric: self.events.append(event), at the end of the list.
add_event_first(d, e) == [d EXCEPT !.events = <<e>> \o @]
add_event(d, e) == [d EXCEPT !.events = Append(@, e)]
add_metric(d, m) == [d EXCEPT !.metrics = Append(@, m)]
add_record(d, r) == IF r.kind = "event" THEN add_event(d, r.id) ELSE add_metric(d, r.id)

\* ---------------------------------------------------- TelemetryCollector

\* _flush: hands out the buffer object and installs a fresh one.
flush_KeepBuffer(buf) == [data |-> buf, buffer |-> buf]
flush_(buf) == [data |-> buf, buffer |-> EmptyData]

get_buffer_size(buf) == Len(buf.events) + Len(buf.metrics)

\* The test that guards the automatic flush at the end of collect_*.
ThresholdReached(kind, buf, size) ==
    IF kind = "event" THEN Len(buf.events) >= size ELSE Len(buf.metrics) >= size

\* The guard of _notify_listeners.
ShouldNotify(lst, buf) == lst # << >> /\ (buf.events # << >> \/ buf.metrics # << >>)

\* The snapshot _notify_listeners hands to the listeners of a call that
\* collected r: a copy of the events and metrics of the whole current buffer.
SnapshotOfRecord(buf, r) == add_record(EmptyData, r)
Snapshot(buf, r) == buf

\* Where the listener loop goes after listener i of n returned or raised:
\* the except clause swallows the exception and the loop goes on.
AfterListenerBreak(raised, i, n) ==
    IF raised THEN "threshold" ELSE IF i < n THEN "notify" ELSE "threshold"
AfterListener(raised, i, n) == IF i < n THEN "notify" ELSE "threshold"

\* Whether the collector still holds its lock while it notifies.
NotifyUnlocked(t) == "free"
LockDuringNotify(t) == t

\* _send_to_consumers: the positions of the consumer list that are called
\* when the consumers of bad raise; the except clause swallows the exception
\* and the loop goes on.
CalledUntilRaise(cons, bad) ==
    {i \in 1 .. Len(cons) : \A j \in 1 .. (i - 1) : cons[j] \notin bad}
Called(cons, bad) == 1 .. Len(cons)

\* _send_to_consumers: every consumer of the list is called with the data,
\* in order; a raising consumer (one of bad) is ignored.
SendToConsumers(cons, d, bad, seen) ==
    [c \in ConsumerNames |->
        [r \in Ids |->
            LET n == Cardinality({i \in Called(cons, bad) : cons[i] = c}) IN
            IF r \in DataIds(d) /\ n > 0
            THEN IF n > 1 THEN CountCap ELSE Bump(seen[c][r])
            ELSE seen[c][r]]]

\* ------------------------------------------------------------- initial state

\* TelemetryCollector.__init__ and TelemetryStream.__init__ (streaming.py).
InitPipeline(cfgs) ==
    /\ config \in cfgs
    /\ nextId = 0
    /\ buffer = EmptyData
    /\ lock = "free"
    /\ listeners = << >>
    /\ pc = [t \in Producers |-> "idle"]
    /\ cur = [t \in Producers |-> NoRec]
    /\ snap = [t \in Producers |-> EmptyData]
    /\ li = [t \in Producers |-> 0]
    /\ invoked = [t \in Producers |-> {}]
    /\ raisedAt = [t \in Producers |-> {}]
    /\ ret = "nocall"
    /\ recTags = [r \in Ids |-> << >>]
    /\ clock = 0
    /\ curTime = [t \in Producers |-> 0]
    /\ recTime = [r \in Ids |-> 0]
    /\ appPc = "idle"
    /\ appBatch = EmptyData
    /\ consumers = << >>
    /\ stopEvent = FALSE
    /\ threadRef = 0
    /\ loopPc = [l \in LoopIds |-> "unborn"]
    /\ loopData = [l \in LoopIds |-> EmptyData]
    /\ loopFault = [l \in LoopIds |-> NoFault]
    /\ returned = [r \in Ids |-> 0]
    /\ stored = [r \in Ids |-> 0]
    /\ consumed = [c \in ConsumerNames |-> [r \in Ids |-> 0]]
    /\ stopSnap = 0
    /\ joinAlive = "none"
    /\ stopRet = "nocall"

\* No get_stats call is under way.
NoStats == [pc |-> "idle", total |-> 0, size |-> 0]

\* TelemetryService.__init__ and DataCollector.__init__, for a configuration
\* taken from cfgs.
InitService(cfgs) ==
    /\ svcConfig \in cfgs
    /\ svcRunning = FALSE
    /\ svcNext = 0
    /\ dcBuffer = << >>
    /\ dcCount = 0
    /\ dcCallbacks = << >>
    /\ sPc = [t \in ServiceThreads |-> "idle"]
    /\ sCur = [t \in ServiceThreads |-> 0]
    /\ sCi = [t \in ServiceThreads |-> 0]
    /\ sInvoked = [t \in ServiceThreads |-> {}]
    /\ sRaisedAt = [t \in ServiceThreads |-> {}]
    /\ sRet = [t \in ServiceThreads |-> << >>]
    /\ rPc = [r \in Retrievers |-> "idle"]
    /\ rSize = [r \in Retrievers |-> 0]
    /\ rEvents = [r \in Retrievers |-> << >>]
    /\ taken = [e \in EventIds |-> 0]
    /\ stats = NoStats

\* EventEmitter.__init__
NoEvent == [id |-> 0, type |-> "none"]
InitEmitter ==
    /\ emListeners = [ty \in EventTypes |-> << >>]
    /\ emEvents = << >>
    /\ emitted = << >>
    /\ emCleared = 0
    /\ ePc = "idle"
    /\ eCur = NoEvent
    /\ eCi = 0
    /\ eInvoked = {}
    /\ eRaisedAt = {}
    /\ eRet = "none"
    /\ eArg = "none"
    /\ eGot = << >>

\* MemoryStorage.__init__ and FileStorage.__init__ (the file does not exist
\* yet); no retrieve call has been made.
NoRequest == [target |-> "none", start |-> << >>, end |-> << >>,
              limit |-> << >>]
InitStorage ==
    /\ memEvents = << >>
    /\ memMetrics = << >>
    /\ fileExists = FALSE
    /\ fileLines = << >>
    /\ written = << >>
    /\ memCleared = 0
    /\ intact = {}
    /\ stPc = "idle"
    /\ stReq = NoRequest
    /\ stRes = EmptyData

\* TelemetryStream.__init__ (stream.py), for a buffer_size taken from sizes.
InitQueue(sizes) ==
    /\ queueSize \in sizes
    /\ pushed = 0
    /\ event_queue = << >>
    /\ metric_queue = << >>
    /\ subscribers = << >>
    /\ running = FALSE
    /\ qStopEvent = FALSE
    /\ workerThread = 0
    /\ qAppPc = "idle"
    /\ qJoinAlive = "none"
    /\ qStopRet = "nocall"
    /\ pPc = [t \in Pushers |-> "idle"]
    /\ pItem = [t \in Pushers |-> NoRec]
    /\ pFull = [t \in Pushers |-> FALSE]
    /\ pEvicted = [t \in Pushers |-> 0]
    /\ pEnqueued = [t \in Pushers |-> FALSE]
    /\ wPc = [w \in WorkerIds |-> "unborn"]
    /\ wItem = [w \in WorkerIds |-> 0]
    /\ wSi = [w \in WorkerIds |-> 0]
    /\ wCalled = [w \in WorkerIds |-> << >>]
    /\ wRaisedAt = [w \in WorkerIds |-> {}]
    /\ notified = [i \in QueueIds |-> 0]
    /\ evicted = {}

Configs == [enabled : BOOLEAN, realtime_mode : BOOLEAN,
            buffer_size : 1 .. MaxBufferSize, tags : {{}}]
\* 'sampling_rate': 1.0 of DEFAULT_CONFIG, in percent.
FullRate == 100
SvcConfigs == [enabled : BOOLEAN, buffer_size : 1 .. MaxSvcBuffer,
               sampling_rate : {FullRate}]
\* The configuration of a component the process does not construct.
DefaultSvcConfig == [enabled |-> TRUE, buffer_size |-> MaxSvcBuffer,
                     sampling_rate |-> FullRate]
\* Any dictionary a caller can hand to TelemetryService(config): __init__
\* reads 'enabled' and 'buffer_size' with config.get and checks neither; the
\* key 'sampling_rate' is carried by the dictionary.
AnySvcConfigs == [enabled : BOOLEAN,
                  buffer_size : {-1} \cup (0 .. MaxSvcBuffer),
                  sampling_rate : {0, FullRate}]
DefaultConfig == [enabled |-> TRUE, realtime_mode |-> FALSE,
                  buffer_size |-> MaxBufferSize, tags |-> {}]

\* A process that constructs a TelemetryCollector and a TelemetryStream on it.
InitCollectorOnly ==
    /\ built = {"pipeline"}
    /\ InitPipeline(Configs)
    /\ InitService({DefaultSvcConfig})
    /\ InitQueue({MaxQueueSize})
    /\ InitEmitter
    /\ InitStorage

\* A process that constructs a TelemetryService.
InitServiceOnly ==
    /\ built = {"service"}
    /\ InitPipeline({DefaultConfig})
    /\ InitService(SvcConfigs)
    /\ InitQueue({MaxQueueSize})
    /\ InitEmitter
    /\ InitStorage

\* A process that constructs a queue-based TelemetryStream.
InitQueueOnly ==
    /\ built = {"queue"}
    /\ InitPipeline({DefaultConfig})
    /\ InitService({DefaultSvcConfig})
    /\ InitQueue(1 .. MaxQueueSize)
    /\ InitEmitter
    /\ InitStorage

\* A process that constructs a collector with its stream and a service.
Init ==
    /\ built = {"pipeline", "service"}
    /\ InitPipeline(Configs)
    /\ InitService(SvcConfigs)
    /\ InitQueue({MaxQueueSize})
    /\ InitEmitter
    /\ InitStorage

\* ------------------------------------------------- collect_event / collect_metric

\* The tags attribute of the record collect_metric builds: TelemetryMetric(
\* ..., tags=tags), the configuration is not consulted.
MetricTags(kind, tags) == IF kind = "metric" THEN tags ELSE << >>

\* config.enabled is False: the call returns None at once.
CollectDisabled(t) ==
    /\ InPipeline
    /\ pc[t] = "idle"
    /\ ~config.enabled
    /\ ret' = "None"
    /\ UNCHANGED <<config, nextId, buffer, lock, listeners, pc, cur, snap, li,
                   invoked, raisedAt, appVars, strVars, obsVars>>

\* with self._lock: the record is added to the buffer; in realtime mode the
\* call then enters _notify_listeners. A metric was built with tags=tags, the
\* caller's argument (<< >> is None); a TelemetryEvent has no tags attribute.
\* The record was built with timestamp=datetime.utcnow(), the reading time.
AddUnderLock(t, kind, tags, time) ==
    /\ lock = "free"
    /\ nextId' = nextId + 1
    /\ recTags' = [recTags EXCEPT ![nextId + 1] = MetricTags(kind, tags)]
    /\ recTime' = [recTime EXCEPT ![nextId + 1] = time]
    /\ cur' = [cur EXCEPT ![t] = [id |-> nextId + 1, kind |-> kind]]
    /\ buffer' = add_record(buffer, cur'[t])
    /\ IF config.realtime_mode /\ ShouldNotify(listeners, buffer')
       THEN /\ snap' = [snap EXCEPT ![t] = Snapshot(buffer', cur'[t])]
            /\ li' = [li EXCEPT ![t] = 1]
            /\ pc' = [pc EXCEPT ![t] = "notify"]
            /\ lock' = LockDuringNotify(t)
       ELSE /\ pc' = [pc EXCEPT ![t] = "threshold"]
            /\ lock' = t
            /\ UNCHANGED <<snap, li>>
    /\ UNCHANGED <<config, listeners, invoked, raisedAt, ret,
                   appVars, strVars, obsVars>>

\* The record is built (the next uuid, the time now) and, with self._lock,
\* added to the buffer, with no step of another thread in between.
CollectTagged(t, kind, tags, limit) ==
    /\ InCollect
    /\ pc[t] = "idle"
    /\ config.enabled
    /\ nextId < limit
    /\ clock' = clock + 1
    /\ UNCHANGED curTime
    /\ AddUnderLock(t, kind, tags, clock + 1)

\* collect_event / collect_metric up to the lock: the enabled test, and the
\* record built with timestamp=datetime.utcnow().
CollectBuild(t, kind, limit) ==
    /\ InCollect
    /\ pc[t] = "idle"
    /\ config.enabled
    /\ clock < limit
    /\ clock' = clock + 1
    /\ curTime' = [curTime EXCEPT ![t] = clock + 1]
    /\ cur' = [cur EXCEPT ![t] = [id |-> 0, kind |-> kind]]
    /\ pc' = [pc EXCEPT ![t] = "built"]
    /\ UNCHANGED <<config, nextId, buffer, lock, listeners, snap, li, invoked,
                   raisedAt, ret, recTags, recTime, appVars, strVars, obsVars>>

\* collect_event / collect_metric from `with self._lock:` on, for the record
\* the thread has built.
CollectEnter(t) ==
    /\ InCollect
    /\ pc[t] = "built"
    /\ curTime' = [curTime EXCEPT ![t] = 0]
    /\ UNCHANGED clock
    /\ AddUnderLock(t, cur[t].kind, << >>, curTime[t])

\* collect_event, and collect_metric called without tags.
CollectAdmit(t, kind, limit) == CollectTagged(t, kind, << >>, limit)

\* listener(snapshot) is called; the stream's listener is _on_realtime_data,
\* which sends the snapshot to the stream's consumers.
ListenerEnter(t) ==
    /\ InPipeline
    /\ pc[t] = "notify"
    /\ pc' = [pc EXCEPT ![t] = "in_listener"]
    /\ invoked' = [invoked EXCEPT ![t] = @ \cup {li[t]}]
    /\ IF listeners[li[t]] = "stream"
       THEN \E bad \in SUBSET Range(consumers) :
                consumed' = SendToConsumers(consumers, snap[t], bad, consumed)
       ELSE UNCHANGED consumed
    /\ UNCHANGED <<config, nextId, buffer, lock, listeners, cur, snap, li,
                   raisedAt, ret, appVars, strVars, returned,
                   stored>>

\* The listener returns or raises (only an application listener raises:
\* _on_realtime_data lets no exception out).
ListenerReturn(t) ==
    /\ InPipeline
    /\ pc[t] = "in_listener"
    /\ \E raised \in (IF listeners[li[t]] = "user" THEN BOOLEAN ELSE {FALSE}) :
        /\ raisedAt' = [raisedAt EXCEPT ![t] = IF raised THEN @ \cup {li[t]} ELSE @]
        /\ pc' = [pc EXCEPT ![t] = AfterListener(raised, li[t], Len(listeners))]
        /\ li' = [li EXCEPT ![t] = IF pc'[t] = "notify" THEN @ + 1 ELSE @]
    /\ UNCHANGED <<config, nextId, buffer, lock, listeners, cur, snap, invoked,
                   ret, appVars, strVars, obsVars>>

\* The threshold test, the automatic _flush() whose result is dropped, the
\* release of the lock and the return of the record.
CollectThreshold(t) ==
    /\ InPipeline
    /\ pc[t] = "threshold"
    /\ buffer' = IF ThresholdReached(cur[t].kind, buffer, config.buffer_size)
                 THEN flush_(buffer).buffer ELSE buffer
    /\ lock' = "free"
    /\ ret' = "record"
    /\ pc' = [pc EXCEPT ![t] = "idle"]
    /\ cur' = [cur EXCEPT ![t] = NoRec]
    /\ snap' = [snap EXCEPT ![t] = EmptyData]
    /\ li' = [li EXCEPT ![t] = 0]
    /\ invoked' = [invoked EXCEPT ![t] = {}]
    /\ raisedAt' = [raisedAt EXCEPT ![t] = {}]
    /\ UNCHANGED <<config, nextId, listeners, appVars, strVars,
                   obsVars>>

\* ------------------------------------------------- add_listener / flush

\* add_listener of an application listener, under the lock.
AddListener(limit) ==
    /\ InPipeline
    /\ appPc = "idle"
    /\ lock = "free"
    /\ Count(listeners, "user") < limit
    /\ listeners' = Append(listeners, "user")
    /\ UNCHANGED <<config, nextId, buffer, lock, pc, cur, snap, li, invoked,
                   raisedAt, ret, appVars, strVars, obsVars>>

\* What a completed flush() call adds to the observation of the run.
NoteFlush(d) ==
    returned' = [r \in Ids |-> IF r \in DataIds(d) THEN Bump(returned[r])
                               ELSE returned[r]]

\* flush() called by the application: with self._lock: return self._flush()
AppFlush ==
    /\ InPipeline
    /\ appPc = "idle"
    /\ lock = "free"
    /\ appBatch' = flush_(buffer).data
    /\ buffer' = flush_(buffer).buffer
    /\ NoteFlush(flush_(buffer).data)
    /\ appPc' = "flushed"
    /\ UNCHANGED <<config, nextId, lock, listeners, pc, cur, snap, li, invoked,
                   raisedAt, ret, strVars, stored, consumed>>

\* The application is done with the batch flush() returned.
AppFlushDone ==
    /\ InPipeline
    /\ appPc = "flushed"
    /\ appBatch' = EmptyData
    /\ appPc' = "idle"
    /\ UNCHANGED <<colVars, strVars, obsVars>>

\* An application listener calls back into the collector from inside its
\* callback: flush() and get_buffer_size() start with `with self._lock:`
\* (add_listener and remove_listener do the same). threading.Lock is not
\* re-entrant: the call goes on when the lock is free and waits otherwise.
ReentrantCalls == {"flush", "get_buffer_size"}
ListenerCallsBack(t, call) ==
    /\ InPipeline
    /\ pc[t] \in {"in_listener", "lock_wait"}
    /\ listeners[li[t]] = "user"
    /\ IF lock = "free"
       THEN /\ pc' = [pc EXCEPT ![t] = "in_listener"]
            /\ buffer' = IF call = "flush" THEN flush_(buffer).buffer
                          ELSE buffer
            /\ IF call = "flush" THEN NoteFlush(flush_(buffer).data)
               ELSE UNCHANGED returned
       ELSE /\ pc' = [pc EXCEPT ![t] = "lock_wait"]
            /\ UNCHANGED <<buffer, returned>>
    /\ UNCHANGED <<config, nextId, lock, listeners, cur, snap, li, invoked,
                   raisedAt, ret, appVars, strVars, stored, consumed>>

\* ------------------------------------------------- TelemetryStream (streaming.py)

Alive(l) == loopPc[l] \notin {"unborn", "dead"}

AddConsumer(c, limit) ==
    /\ InPipeline
    /\ appPc = "idle"
    /\ Len(consumers) < limit
    /\ consumers' = Append(consumers, c)
    /\ UNCHANGED <<colVars, appVars, stopEvent, threadRef, loopPc, loopData,
                   loopFault, stopSnap, stopObs, obsVars>>

\* The test at the head of start(): self._thread and self._thread.is_alive()
StreamRunningNever == FALSE
StreamRunning == threadRef # 0 /\ Alive(threadRef)

\* start(): nothing when the thread is alive; else clear the stop event and
\* start a new thread.  The listener is registered afterwards (StartRegister).
StreamStart(slots) ==
    /\ InPipeline
    /\ appPc = "idle"
    /\ ~StreamRunning
    /\ \E l \in 1 .. slots :
        /\ ~Alive(l)
        /\ \A k \in 1 .. slots : ~Alive(k) => l <= k
        /\ threadRef' = l
        /\ loopPc' = [loopPc EXCEPT ![l] = "check"]
    /\ stopEvent' = FALSE
    /\ appPc' = IF config.realtime_mode THEN "start_reg" ELSE "idle"
    /\ UNCHANGED <<colVars, appBatch, consumers, loopData, loopFault, stopSnap,
                   stopObs, obsVars>>

\* start() on a stream whose thread is alive returns at once.
StreamStartAlive ==
    /\ "pipeline" \in built
    /\ appPc = "idle"
    /\ StreamRunning
    /\ UNCHANGED vars

\* collector.add_listener(self._on_realtime_data), under the collector's lock.
StartRegister ==
    /\ InPipeline
    /\ appPc = "start_reg"
    /\ lock = "free"
    /\ listeners' = Append(listeners, "stream")
    /\ appPc' = "idle"
    /\ UNCHANGED <<config, nextId, buffer, lock, pc, cur, snap, li, invoked,
                   raisedAt, ret, appBatch, strVars, obsVars>>

\* Records whose collect call had returned: all created ones but the one of
\* a call still in progress.
Collected == nextId - Cardinality({t \in Producers : pc[t] # "idle"})

\* stop(): self._stop_event.set()
StopSet ==
    /\ InPipeline
    /\ appPc = "idle"
    /\ stopEvent' = TRUE
    /\ stopSnap' = Collected
    /\ appPc' = IF threadRef # 0 THEN "stop_join" ELSE "stop_unreg"
    /\ UNCHANGED <<colVars, appBatch, consumers, threadRef, loopPc, loopData,
                   loopFault, stopObs, obsVars>>

\* The thread can outlast join(timeout=5.0) only while it is inside a call of
\* unbounded duration: a store or consumer call, or the wait for the
\* collector's lock held during a listener call.
JoinCanTimeOut(l) ==
    \/ loopPc[l] = "deliver"
    \/ loopPc[l] = "flush" /\ lock # "free"

\* What stop() reports to its caller: it has no return statement and raises
\* nothing, whether or not the thread outlasted the join.
StopResult(alive) == "None"

\* self._thread.join(timeout=5.0); self._thread = None
StopJoin ==
    /\ InPipeline
    /\ appPc = "stop_join"
    /\ loopPc[threadRef] = "dead" \/ JoinCanTimeOut(threadRef)
    /\ joinAlive' = IF loopPc[threadRef] = "dead" THEN "dead" ELSE "alive"
    /\ threadRef' = 0
    /\ appPc' = "stop_unreg"
    /\ UNCHANGED <<colVars, appBatch, consumers, stopEvent, loopPc, loopData,
                   loopFault, stopSnap, stopRet, obsVars>>

\* collector.remove_listener(self._on_realtime_data), under the lock.
StopUnregister ==
    /\ InPipeline
    /\ appPc = "stop_unreg"
    /\ lock = "free"
    /\ listeners' = RemoveFirst(listeners, "stream")
    /\ appPc' = "stop_ret"
    /\ stopRet' = StopResult(joinAlive = "alive")
    /\ stopSnap' = 0
    /\ UNCHANGED <<config, nextId, buffer, lock, pc, cur, snap, li, invoked,
                   raisedAt, ret, appBatch, consumers, stopEvent,
                   threadRef, loopPc, loopData, loopFault, joinAlive, obsVars>>

\* stop() has returned stopRet and the caller goes on.
StopReturn ==
    /\ InPipeline
    /\ appPc = "stop_ret"
    /\ appPc' = "idle"
    /\ stopRet' = "nocall"
    /\ joinAlive' = "none"
    /\ UNCHANGED <<colVars, appBatch, consumers, stopEvent, threadRef, loopPc,
                   loopData, loopFault, stopSnap, obsVars>>

\* while not self._stop_event.is_set():
LoopCheck(l) ==
    /\ InPipeline
    /\ loopPc[l] = "check"
    /\ loopPc' = [loopPc EXCEPT ![l] = IF stopEvent THEN "dead" ELSE "flush"]
    /\ UNCHANGED <<colVars, appVars, consumers, stopEvent, threadRef, loopData,
                   loopFault, stopSnap, stopObs, obsVars>>

\* The test of _stream_loop on the flushed batch: if data.events or data.metrics
HasEvents(d) == d.events # << >>
HasData(d) == d.events # << >> \/ d.metrics # << >>

\* data = self.collector.flush()
LoopFlush(l) ==
    /\ InPipeline
    /\ loopPc[l] = "flush"
    /\ lock = "free"
    /\ loopData' = [loopData EXCEPT ![l] = flush_(buffer).data]
    /\ buffer' = flush_(buffer).buffer
    /\ NoteFlush(flush_(buffer).data)
    /\ loopPc' = [loopPc EXCEPT ![l] =
                    IF HasData(loopData'[l]) THEN "deliver" ELSE "wait"]
    /\ UNCHANGED <<config, nextId, lock, listeners, pc, cur, snap, li, invoked,
                   raisedAt, ret, appVars, consumers, stopEvent,
                   threadRef, loopFault, stopSnap, stopObs, stored, consumed>>

\* Whether the batch still goes to the consumers when storage.store raised:
\* the except clause swallows the exception.
ReachesConsumers(storeRaised) == TRUE

\* self.storage.store(data) inside try/except, then _send_to_consumers(data).
LoopDeliver(l) ==
    /\ InPipeline
    /\ loopPc[l] = "deliver"
    /\ \E storeRaised \in BOOLEAN, bad \in SUBSET Range(consumers) :
        /\ loopFault' = [loopFault EXCEPT ![l] = [store |-> storeRaised,
                                                  bad |-> bad]]
        /\ stored' = [r \in Ids |-> IF r \in DataIds(loopData[l])
                                    THEN Bump(stored[r]) ELSE stored[r]]
        /\ consumed' = IF ReachesConsumers(storeRaised)
                       THEN SendToConsumers(consumers, loopData[l], bad, consumed)
                       ELSE consumed
    /\ loopData' = [loopData EXCEPT ![l] = EmptyData]
    /\ loopPc' = [loopPc EXCEPT ![l] = "wait"]
    /\ UNCHANGED <<colVars, appVars, consumers, stopEvent, threadRef, stopSnap,
                   stopObs, returned>>

\* self._stop_event.wait(self.interval): ends when the event is set or the
\* interval has elapsed.
LoopWait(l) ==
    /\ InPipeline
    /\ loopPc[l] = "wait"
    /\ loopPc' = [loopPc EXCEPT ![l] = "check"]
    /\ loopFault' = [loopFault EXCEPT ![l] = NoFault]
    /\ UNCHANGED <<colVars, appVars, consumers, stopEvent, threadRef, loopData,
                   stopSnap, stopObs, obsVars>>

\* ------------------------------------------------- specification

\* The pipeline: producer threads prods, the application thread and the loop
\* thread of the stream.
Pipeline(prods, recLimit, lstLimit, slots, cs, consLimit) ==
    \/ \E t \in prods : CollectDisabled(t)
    \/ \E t \in prods, k \in Kinds : CollectAdmit(t, k, recLimit)
    \/ \E t \in prods : ListenerEnter(t)
    \/ \E t \in prods : ListenerReturn(t)
    \/ \E t \in prods : CollectThreshold(t)
    \/ AddListener(lstLimit)
    \/ AppFlush
    \/ AppFlushDone
    \/ \E c \in cs : AddConsumer(c, consLimit)
    \/ StreamStart(slots)
    \/ StreamStartAlive
    \/ StartRegister
    \/ StopSet
    \/ StopJoin
    \/ StopUnregister
    \/ StopReturn
    \/ \E l \in LoopIds : LoopCheck(l)
    \/ \E l \in LoopIds : LoopFlush(l)
    \/ \E l \in LoopIds : LoopDeliver(l)
    \/ \E l \in LoopIds : LoopWait(l)

Next == Pipeline(Producers, MaxStreamRecords, MaxStreamUserListeners,
                 MaxPipelineLoops, {"c1"}, MaxConsumers)

Spec == InitCollectorOnly /\ [][Next]_vars

\* The collector used without a stream: producers and an application thread
\* that registers listeners and calls flush().
Collector(prods, recLimit, lstLimit) ==
    \/ \E t \in prods : CollectDisabled(t)
    \/ \E t \in prods, k \in Kinds : CollectAdmit(t, k, recLimit)
    \/ \E t \in prods : ListenerEnter(t)
    \/ \E t \in prods : ListenerReturn(t)
    \/ \E t \in prods : CollectThreshold(t)
    \/ AddListener(lstLimit)
    \/ AppFlush
    \/ AppFlushDone

NextCollector == Collector(Producers, MaxRecords, MaxUserListeners)

SpecCollector == InitCollectorOnly /\ [][NextCollector]_vars

\* A process that constructs a TelemetryCollector: producers whose collect
\* calls build the record first and take the lock afterwards, and an
\* application thread that registers listeners and calls flush().
NextStamps ==
    \/ \E t \in Producers : CollectDisabled(t)
    \/ \E t \in Producers, k \in Kinds : CollectBuild(t, k, MaxRecords)
    \/ \E t \in Producers : CollectEnter(t)
    \/ \E t \in Producers : ListenerEnter(t)
    \/ \E t \in Producers : ListenerReturn(t)
    \/ \E t \in Producers : CollectThreshold(t)
    \/ AddListener(MaxUserListeners)
    \/ AppFlush
    \/ AppFlushDone

SpecStamps == InitCollectorOnly /\ [][NextStamps]_vars

\* Tag mappings, as sets of (key, value) pairs with distinct keys; an optional
\* tags argument is << >> (None) or <<mapping>>.
TagMaps == SUBSET {<<"env", "test">>, <<"version", "1.0">>}
OptTags == {<< >>} \cup {<<m>> : m \in TagMaps}
TagConfigs == [enabled : BOOLEAN, realtime_mode : BOOLEAN,
               buffer_size : {MaxBufferSize}, tags : TagMaps]

\* A process that constructs a TelemetryCollector whose configuration has
\* default tags: a producer that hands tags to collect_metric, and an
\* application thread that registers listeners and calls flush().
InitTags ==
    /\ built = {"pipeline"}
    /\ InitPipeline(TagConfigs)
    /\ InitService({DefaultSvcConfig})
    /\ InitQueue({MaxQueueSize})
    /\ InitEmitter
    /\ InitStorage

NextTags ==
    \/ CollectDisabled("p1")
    \/ \E k \in Kinds, tags \in OptTags :
           CollectTagged("p1", k, tags, MaxNotifyRecords)
    \/ ListenerEnter("p1")
    \/ ListenerReturn("p1")
    \/ CollectThreshold("p1")
    \/ AddListener(MaxStreamUserListeners)
    \/ AppFlush
    \/ AppFlushDone

SpecTags == InitTags /\ [][NextTags]_vars

\* A record's tag mapping holds every tag of need.
HasTags(o, need) == need = {} \/ (o # << >> /\ need \subseteq o[1])

\* C29: every record handed to a listener or returned by flush() carries all
\* the default tags of the configuration in its tag mapping.
C29_DefaultTagsDelivered ==
    /\ \A t \in Producers :
           pc[t] = "in_listener"
               => \A r \in DataIds(snap[t]) : HasTags(recTags[r], config.tags)
    /\ \A r \in DataIds(appBatch) : HasTags(recTags[r], config.tags)

\* The collector with application listeners that may call back into it;
\* listeners return, and a thread that can take its next step takes it.
NextReentrant ==
    \/ Collector(Producers, MaxNotifyRecords, MaxUserListeners)
    \/ \E t \in Producers, c \in ReentrantCalls : ListenerCallsBack(t, c)

FairReentrant ==
    \A t \in Producers :
        /\ WF_vars(ListenerEnter(t))
        /\ WF_vars(ListenerReturn(t))
        /\ WF_vars(\E c \in ReentrantCalls : ListenerCallsBack(t, c))
        /\ WF_vars(CollectThreshold(t))

SpecReentrant == InitCollectorOnly /\ [][NextReentrant]_vars /\ FairReentrant

\* The pipeline with two consumers: one producer, storage and consumers that
\* may raise.
NextSinks == Pipeline({"p1"}, MaxSinkRecords, MaxStreamUserListeners,
                      MaxPipelineLoops, ConsumerNames, MaxSinkConsumers)

SpecSinks == InitCollectorOnly /\ [][NextSinks]_vars

\* The data path from collect_* to storage.store: one producer, the stream
\* started and stopped by the application thread, the loop thread; nobody
\* calls flush() but the loop.
FlowConfigs == [enabled : BOOLEAN, realtime_mode : BOOLEAN,
                buffer_size : {SmallFlowBuffer, MaxFlowBuffer}, tags : {{}}]

InitFlow ==
    /\ built = {"pipeline"}
    /\ InitPipeline(FlowConfigs)
    /\ InitService({DefaultSvcConfig})
    /\ InitQueue({MaxQueueSize})
    /\ InitEmitter
    /\ InitStorage

NextFlow ==
    \/ CollectDisabled("p1")
    \/ \E k \in Kinds : CollectAdmit("p1", k, MaxFlowRecords)
    \/ ListenerEnter("p1")
    \/ ListenerReturn("p1")
    \/ CollectThreshold("p1")
    \/ StreamStart(MaxPipelineLoops)
    \/ StreamStartAlive
    \/ StartRegister
    \/ StopSet
    \/ StopJoin
    \/ StopUnregister
    \/ StopReturn
    \/ \E l \in LoopIds : LoopCheck(l)
    \/ \E l \in LoopIds : LoopFlush(l)
    \/ \E l \in LoopIds : LoopDeliver(l)
    \/ \E l \in LoopIds : LoopWait(l)

\* A started loop thread keeps running (the wait ends after the interval, the
\* store and consumer calls return), and so does a producer inside collect_*.
FairFlow ==
    /\ \A l \in LoopIds :
        /\ WF_vars(LoopCheck(l))
        /\ WF_vars(LoopFlush(l))
        /\ WF_vars(LoopDeliver(l))
        /\ WF_vars(LoopWait(l))
    /\ WF_vars(ListenerEnter("p1"))
    /\ WF_vars(ListenerReturn("p1"))
    /\ WF_vars(CollectThreshold("p1"))

SpecFlow == InitFlow /\ [][NextFlow]_vars /\ FairFlow

\* ------------------------------------------------- TelemetryService / DataCollector

\* The test at the head of emit.
EmitRefusedAlways(enabled, isRunning) == FALSE
EmitRefused(enabled, isRunning) == ~enabled \/ ~isRunning

\* What collect does after callback i of n returned or raised: the inner
\* except clause swallows the exception, the loop goes on and collect
\* returns True after the last callback.
CallbackOutcome(raised, i, n) ==
    IF i < n THEN [pc |-> "callback", ret |-> << >>]
    ELSE [pc |-> "done", ret |-> <<TRUE>>]

\* start(): if self._enabled: self._running = True
SvcStart ==
    /\ InService
    /\ svcRunning' = IF svcConfig.enabled THEN TRUE ELSE svcRunning
    /\ UNCHANGED <<svcConfig, svcNext, dcBuffer, dcCount, dcCallbacks,
                   sPc, sCur, sCi, sInvoked, sRaisedAt, sRet, getVars>>

\* stop(): self._running = False
SvcStop ==
    /\ InService
    /\ svcRunning' = FALSE
    /\ UNCHANGED <<svcConfig, svcNext, dcBuffer, dcCount, dcCallbacks,
                   sPc, sCur, sCi, sInvoked, sRaisedAt, sRet, getVars>>

\* register_callback
RegisterCallback(limit) ==
    /\ InService
    /\ Len(dcCallbacks) < limit
    /\ dcCallbacks' = Append(dcCallbacks, "cb")
    /\ UNCHANGED <<svcConfig, svcRunning, svcNext, dcBuffer, dcCount,
                   sPc, sCur, sCi, sInvoked, sRaisedAt, sRet, getVars>>

\* emit: return False when disabled or not running, else build the event and
\* call self._collector.collect(event).
SvcEmit(t, limit) ==
    /\ InService
    /\ sPc[t] = "idle"
    /\ IF EmitRefused(svcConfig.enabled, svcRunning)
       THEN /\ sRet' = [sRet EXCEPT ![t] = <<FALSE>>]
            /\ sPc' = [sPc EXCEPT ![t] = "done"]
            /\ UNCHANGED <<svcNext, sCur, getVars>>
       ELSE /\ svcNext < limit
            /\ svcNext' = svcNext + 1
            /\ sCur' = [sCur EXCEPT ![t] = svcNext + 1]
            /\ sPc' = [sPc EXCEPT ![t] = "collect"]
            /\ UNCHANGED sRet
    /\ UNCHANGED <<svcConfig, svcRunning, dcBuffer, dcCount,
                   dcCallbacks, sCi, sInvoked, sRaisedAt, getVars>>

\* collect, when put_nowait raised Full: the outer except clause returns False;
\* the count and the callback loop are skipped.
CollectFullCounted == [pc |-> "count", ret |-> << >>]
CollectFull == [pc |-> "done", ret |-> <<FALSE>>]

\* collect: self._buffer.put_nowait(event); queue.Full is caught by the outer
\* except clause.
DcPut(t) ==
    /\ InService
    /\ sPc[t] = "collect"
    /\ LET r == put_nowait(dcBuffer, sCur[t], svcConfig.buffer_size) IN
        /\ dcBuffer' = r.q
        /\ sPc' = [sPc EXCEPT ![t] = IF r.ok THEN "count" ELSE CollectFull.pc]
        /\ sRet' = [sRet EXCEPT ![t] = IF r.ok THEN @ ELSE CollectFull.ret]
    /\ UNCHANGED <<svcConfig, svcRunning, svcNext, dcCount,
                   dcCallbacks, sCur, sCi, sInvoked, sRaisedAt, getVars>>

\* collect: with self._lock: self._event_count += 1; then the callback loop
\* starts (return True when there is no callback).
DcCount(t) ==
    /\ InService
    /\ sPc[t] = "count"
    /\ dcCount' = dcCount + 1
    /\ IF dcCallbacks = << >>
       THEN /\ sPc' = [sPc EXCEPT ![t] = "done"]
            /\ sRet' = [sRet EXCEPT ![t] = <<TRUE>>]
            /\ UNCHANGED sCi
       ELSE /\ sPc' = [sPc EXCEPT ![t] = "callback"]
            /\ sCi' = [sCi EXCEPT ![t] = 1]
            /\ UNCHANGED sRet
    /\ UNCHANGED <<svcConfig, svcRunning, svcNext, dcBuffer,
                   dcCallbacks, sCur, sInvoked, sRaisedAt, getVars>>

\* collect: callback(event) inside try/except, for the next callback.
DcCallback(t) ==
    /\ InService
    /\ sPc[t] = "callback"
    /\ sInvoked' = [sInvoked EXCEPT ![t] = @ \cup {sCi[t]}]
    /\ \E raised \in BOOLEAN :
        /\ sRaisedAt' = [sRaisedAt EXCEPT ![t] = IF raised THEN @ \cup {sCi[t]} ELSE @]
        /\ sPc' = [sPc EXCEPT ![t] =
                     CallbackOutcome(raised, sCi[t], Len(dcCallbacks)).pc]
        /\ sRet' = [sRet EXCEPT ![t] =
                     CallbackOutcome(raised, sCi[t], Len(dcCallbacks)).ret]
    /\ sCi' = [sCi EXCEPT ![t] = IF sPc'[t] = "callback" THEN @ + 1 ELSE @]
    /\ UNCHANGED <<svcConfig, svcRunning, svcNext, dcBuffer, dcCount,
                   dcCallbacks, sCur, getVars>>

\* emit has returned sRet[t] and the caller goes on.
EmitDone(t) ==
    /\ InService
    /\ sPc[t] = "done"
    /\ sPc' = [sPc EXCEPT ![t] = "idle"]
    /\ sRet' = [sRet EXCEPT ![t] = << >>]
    /\ sCur' = [sCur EXCEPT ![t] = 0]
    /\ sCi' = [sCi EXCEPT ![t] = 0]
    /\ sInvoked' = [sInvoked EXCEPT ![t] = {}]
    /\ sRaisedAt' = [sRaisedAt EXCEPT ![t] = {}]
    /\ UNCHANGED <<svcConfig, svcRunning, svcNext, dcBuffer, dcCount,
                   dcCallbacks, getVars>>

\* get_events(batch_size) calls retrieve(batch_size): events = []; the loop
\* `for _ in range(batch_size)` has no turn when batch_size is 0.
GetEvents(r, sizes) ==
    /\ InService
    /\ rPc[r] = "idle"
    /\ \E n \in sizes :
        /\ rSize' = [rSize EXCEPT ![r] = n]
        /\ rPc' = [rPc EXCEPT ![r] = IF n > 0 THEN "get" ELSE "ret"]
    /\ rEvents' = [rEvents EXCEPT ![r] = << >>]
    /\ UNCHANGED <<svcConfig, svcRunning, svcNext, dcBuffer, dcCount,
                   dcCallbacks, sPc, sCur, sCi, sInvoked, sRaisedAt, sRet,
                   taken, stats>>

\* retrieve: one turn of the loop, self._buffer.get(timeout=timeout): the
\* event at the head is removed and appended, or Empty ends the loop; the
\* loop also ends after batch_size turns.
RetrieveGet(r) ==
    /\ InService
    /\ rPc[r] = "get"
    /\ LET g == get_nowait(dcBuffer) IN
        /\ dcBuffer' = g.q
        /\ rEvents' = [rEvents EXCEPT ![r] = IF g.ok THEN Append(@, g.item)
                                             ELSE @]
        /\ taken' = IF g.ok THEN [taken EXCEPT ![g.item] = Bump(@)] ELSE taken
        /\ rPc' = [rPc EXCEPT ![r] =
                     IF g.ok /\ Len(rEvents'[r]) < rSize[r] THEN "get"
                     ELSE "ret"]
    /\ UNCHANGED <<svcConfig, svcRunning, svcNext, dcCount, dcCallbacks,
                   sPc, sCur, sCi, sInvoked, sRaisedAt, sRet, rSize, stats>>

\* retrieve returns events and the caller goes on.
RetrieveReturn(r) ==
    /\ InService
    /\ rPc[r] = "ret"
    /\ rPc' = [rPc EXCEPT ![r] = "idle"]
    /\ rSize' = [rSize EXCEPT ![r] = 0]
    /\ rEvents' = [rEvents EXCEPT ![r] = << >>]
    /\ UNCHANGED <<svcConfig, svcRunning, svcNext, dcBuffer, dcCount,
                   dcCallbacks, sPc, sCur, sCi, sInvoked, sRaisedAt, sRet,
                   taken, stats>>

\* get_stats builds its dictionary entry by entry: 'total_events_collected'
\* is self._event_count, read first and without the lock.
GetStats ==
    /\ InService
    /\ stats.pc = "idle"
    /\ stats' = [pc |-> "qsize", total |-> dcCount, size |-> 0]
    /\ UNCHANGED <<svcConfig, svcRunning, svcNext, dcBuffer, dcCount,
                   dcCallbacks, sPc, sCur, sCi, sInvoked, sRaisedAt, sRet,
                   rPc, rSize, rEvents, taken>>

\* get_stats: 'current_buffer_size' is self._buffer.qsize(), read next.
StatsQsize ==
    /\ InService
    /\ stats.pc = "qsize"
    /\ stats' = [stats EXCEPT !.pc = "ret", !.size = Len(dcBuffer)]
    /\ UNCHANGED <<svcConfig, svcRunning, svcNext, dcBuffer, dcCount,
                   dcCallbacks, sPc, sCur, sCi, sInvoked, sRaisedAt, sRet,
                   rPc, rSize, rEvents, taken>>

\* get_stats returns the dictionary and the caller goes on.
StatsReturn ==
    /\ InService
    /\ stats.pc = "ret"
    /\ stats' = NoStats
    /\ UNCHANGED <<svcConfig, svcRunning, svcNext, dcBuffer, dcCount,
                   dcCallbacks, sPc, sCur, sCi, sInvoked, sRaisedAt, sRet,
                   rPc, rSize, rEvents, taken>>

\* One thread that asks for the statistics.
StatsReader == GetStats \/ StatsQsize \/ StatsReturn

\* The thread r retrieves the collected events.
RetrieverOf(r, sizes) ==
    \/ GetEvents(r, sizes)
    \/ RetrieveGet(r)
    \/ RetrieveReturn(r)

\* One thread that retrieves the collected events.
Retriever(sizes) == RetrieverOf("r1", sizes)

\* The service used by the threads thr.
Service(thr, emitLimit, cbLimit) ==
    \/ SvcStart
    \/ SvcStop
    \/ RegisterCallback(cbLimit)
    \/ \E t \in thr : SvcEmit(t, emitLimit)
    \/ \E t \in thr : DcPut(t)
    \/ \E t \in thr : DcCount(t)
    \/ \E t \in thr : DcCallback(t)
    \/ \E t \in thr : EmitDone(t)

NextService ==
    \/ Service(ServiceThreads, MaxEmits, MaxCallbacks)
    \/ Retriever(1 .. MaxBatch)

SpecService == InitServiceOnly /\ [][NextService]_vars

\* A process that constructs a TelemetryService from any configuration
\* dictionary; one thread emits.
InitSettings ==
    /\ built = {"service"}
    /\ InitPipeline({DefaultConfig})
    /\ InitService(AnySvcConfigs)
    /\ InitQueue({MaxQueueSize})
    /\ InitEmitter
    /\ InitStorage

NextSettings ==
    \/ Service({"s1"}, MaxEmits, MaxIngestCallbacks)
    \/ Retriever(1 .. MaxBatch)

SpecSettings == InitSettings /\ [][NextSettings]_vars

\* C27: a configuration with a non-positive buffer size is rejected when the
\* service and its collector are constructed, so no collector that runs has a
\* non-positive, unbounded, capacity.
C27_InvalidConfigRejected == svcRunning => svcConfig.buffer_size > 0

\* C28: when a collect call of emit ends, a sampling rate of 0.0 has left the
\* buffer as it was, and a sampling rate of 1.0 has appended exactly the
\* emitted record if the buffer had room.
C28_SamplingHonoured ==
    [][\A t \in ServiceThreads :
          (sPc[t] = "collect" /\ sPc'[t] # "collect")
              => /\ svcConfig.sampling_rate = 0 => dcBuffer' = dcBuffer
                 /\ (/\ svcConfig.sampling_rate = FullRate
                     /\ (svcConfig.buffer_size <= 0
                            \/ Len(dcBuffer) < svcConfig.buffer_size))
                        => dcBuffer' = Append(dcBuffer, sCur[t])]_vars

\* A process that constructs a TelemetryService: one thread emits, two
\* threads retrieve with batch sizes from 0; a retrieving thread that can
\* take the next turn of its loop takes it (get waits at most its timeout).
NextRetrieve ==
    \/ SvcStart
    \/ SvcEmit("s1", MaxEmits)
    \/ DcPut("s1")
    \/ DcCount("s1")
    \/ EmitDone("s1")
    \/ \E r \in Retrievers : RetrieverOf(r, 0 .. MaxBatch)

FairRetrieve == \A r \in Retrievers : WF_vars(RetrieveGet(r))

SpecRetrieve == InitServiceOnly /\ [][NextRetrieve]_vars /\ FairRetrieve

\* A process that constructs a TelemetryService: two threads emit, one
\* retrieves and one asks for the statistics.
NextStats ==
    \/ SvcStart
    \/ \E t \in ServiceThreads : SvcEmit(t, MaxEmits)
    \/ \E t \in ServiceThreads : DcPut(t)
    \/ \E t \in ServiceThreads : DcCount(t)
    \/ \E t \in ServiceThreads : EmitDone(t)
    \/ Retriever(1 .. MaxBatch)
    \/ StatsReader

SpecStats == InitServiceOnly /\ [][NextStats]_vars

\* ------------------------------------------------- TelemetryStream (stream.py)

QueueOf(kind) == IF kind = "event" THEN event_queue ELSE metric_queue
SetQueue(kind, q) ==
    /\ event_queue' = IF kind = "event" THEN q ELSE event_queue
    /\ metric_queue' = IF kind = "metric" THEN q ELSE metric_queue

\* push_event / push_metric: the item is built by the caller and the first
\* put_nowait is tried; Full sends the call into its except clause.
PushPut(t, kind, limit) ==
    /\ InQueue
    /\ pPc[t] = "idle"
    /\ pushed < limit
    /\ pushed' = pushed + 1
    /\ pItem' = [pItem EXCEPT ![t] = [id |-> pushed + 1, kind |-> kind]]
    /\ LET r == put_nowait(QueueOf(kind), pushed + 1, queueSize) IN
        /\ SetQueue(kind, r.q)
        /\ pEnqueued' = [pEnqueued EXCEPT ![t] = r.ok]
        /\ pFull' = [pFull EXCEPT ![t] = ~r.ok]
        /\ pPc' = [pPc EXCEPT ![t] = IF r.ok THEN "done" ELSE "evict"]
    /\ UNCHANGED <<queueSize, subscribers, running, qStopEvent, workerThread,
                   qAppVars, pEvicted, workVars, notified, evicted>>

\* except: try: self._event_queue.get_nowait(); Empty is swallowed by the
\* inner bare except and the call returns.
PushEvict(t) ==
    /\ InQueue
    /\ pPc[t] = "evict"
    /\ LET r == get_nowait(QueueOf(pItem[t].kind)) IN
        /\ SetQueue(pItem[t].kind, r.q)
        /\ pEvicted' = [pEvicted EXCEPT ![t] = r.item]
        /\ evicted' = IF r.ok THEN evicted \cup {r.item} ELSE evicted
        /\ pPc' = [pPc EXCEPT ![t] = IF r.ok THEN "reput" ELSE "done"]
    /\ UNCHANGED <<queueSize, pushed, subscribers, running, qStopEvent,
                   workerThread, qAppVars, pItem, pFull, pEnqueued, workVars,
                   notified>>

\* self._event_queue.put_nowait(event) after the get_nowait; Full is
\* swallowed by the inner bare except.
PushReput(t) ==
    /\ InQueue
    /\ pPc[t] = "reput"
    /\ LET r == put_nowait(QueueOf(pItem[t].kind), pItem[t].id, queueSize) IN
        /\ SetQueue(pItem[t].kind, r.q)
        /\ pEnqueued' = [pEnqueued EXCEPT ![t] = r.ok]
    /\ pPc' = [pPc EXCEPT ![t] = "done"]
    /\ UNCHANGED <<queueSize, pushed, subscribers, running, qStopEvent,
                   workerThread, qAppVars, pItem, pFull, pEvicted, workVars,
                   notified, evicted>>

\* push_event / push_metric has returned (None) and the caller goes on.
PushReturn(t) ==
    /\ InQueue
    /\ pPc[t] = "done"
    /\ pPc' = [pPc EXCEPT ![t] = "idle"]
    /\ pItem' = [pItem EXCEPT ![t] = NoRec]
    /\ pFull' = [pFull EXCEPT ![t] = FALSE]
    /\ pEvicted' = [pEvicted EXCEPT ![t] = 0]
    /\ pEnqueued' = [pEnqueued EXCEPT ![t] = FALSE]
    /\ UNCHANGED <<queueSize, pushed, event_queue, metric_queue, subscribers,
                   running, qStopEvent, workerThread, qAppVars, workVars,
                   notified, evicted>>

\* subscribe
Subscribe(limit) ==
    /\ InQueue
    /\ Len(subscribers) < limit
    /\ subscribers' = Append(subscribers, "sub")
    /\ UNCHANGED <<queueSize, pushed, event_queue, metric_queue, running,
                   qStopEvent, workerThread, qAppVars, pushVars, workVars,
                   notified, evicted>>

WorkerAlive(w) == wPc[w] \notin {"unborn", "dead"}

\* start(): nothing when running; else set the flag, clear the stop event and
\* start a new worker thread.
QueueStart(slots) ==
    /\ InQueue
    /\ qAppPc = "idle"
    /\ ~running
    /\ \E w \in 1 .. slots :
        /\ ~WorkerAlive(w)
        /\ \A k \in 1 .. slots : ~WorkerAlive(k) => w <= k
        /\ workerThread' = w
        /\ wPc' = [wPc EXCEPT ![w] = "check"]
    /\ running' = TRUE
    /\ qStopEvent' = FALSE
    /\ UNCHANGED <<queueSize, pushed, event_queue, metric_queue, subscribers,
                   qAppVars, pushVars, wItem, wSi, wCalled, wRaisedAt,
                   notified, evicted>>

\* start() on a running stream and stop() on a stopped one return at once.
QueueStartStopNoop ==
    /\ "queue" \in built
    /\ qAppPc = "idle"
    /\ UNCHANGED vars

\* What stop() reports to its caller: it has no return statement and raises
\* nothing, whether or not the worker outlasted the join.
QueueStopResult(alive) == "None"

\* stop(): self._running = False; self._stop_event.set()
QueueStopSet ==
    /\ InQueue
    /\ qAppPc = "idle"
    /\ running
    /\ running' = FALSE
    /\ qStopEvent' = TRUE
    /\ qAppPc' = IF workerThread # 0 THEN "join" ELSE "stop_ret"
    /\ qStopRet' = IF workerThread # 0 THEN qStopRet ELSE QueueStopResult(FALSE)
    /\ UNCHANGED <<queueSize, pushed, event_queue, metric_queue, subscribers,
                   workerThread, qJoinAlive, pushVars, workVars, notified,
                   evicted>>

\* The worker can outlast join(timeout=5) only while it is inside a
\* subscriber call (its queue reads wait 0.1 s at most).
QueueJoinCanTimeOut(w) ==
    /\ wPc[w] \in {"notify_event", "notify_metric"}
    /\ wSi[w] <= Len(subscribers)

\* self._worker_thread.join(timeout=5); then stop() returns.
QueueStopJoin ==
    /\ InQueue
    /\ qAppPc = "join"
    /\ wPc[workerThread] = "dead" \/ QueueJoinCanTimeOut(workerThread)
    /\ qJoinAlive' = IF wPc[workerThread] = "dead" THEN "dead" ELSE "alive"
    /\ qStopRet' = QueueStopResult(qJoinAlive' = "alive")
    /\ qAppPc' = "stop_ret"
    /\ UNCHANGED <<queueSize, pushed, event_queue, metric_queue, subscribers,
                   running, qStopEvent, workerThread, pushVars, workVars,
                   notified, evicted>>

\* stop() has returned qStopRet and the caller goes on.
QueueStopReturn ==
    /\ InQueue
    /\ qAppPc = "stop_ret"
    /\ qAppPc' = "idle"
    /\ qStopRet' = "nocall"
    /\ qJoinAlive' = "none"
    /\ UNCHANGED <<queueSize, pushed, event_queue, metric_queue, subscribers,
                   running, qStopEvent, workerThread, pushVars, workVars,
                   notified, evicted>>

\* while self._running and not self._stop_event.is_set():
WorkerCheck(w) ==
    /\ InQueue
    /\ wPc[w] = "check"
    /\ wPc' = [wPc EXCEPT ![w] = IF running /\ ~qStopEvent THEN "get_event"
                                 ELSE "dead"]
    /\ UNCHANGED <<queueSize, pushed, event_queue, metric_queue, subscribers,
                   running, qStopEvent, workerThread, qAppVars, pushVars,
                   wItem, wSi, wCalled, wRaisedAt, notified, evicted>>

\* The half of the loop body that follows the one the worker is in.
NextPhase(p) == IF p \in {"get_event", "notify_event"} THEN "get_metric" ELSE "check"

\* event = self._event_queue.get(timeout=0.1) (likewise for the metric): an
\* item is dequeued and _notify_subscribers entered, or Empty is raised at the
\* end of the timeout and passed over.
WorkerGet(w, kind) ==
    /\ InQueue
    /\ wPc[w] = (IF kind = "event" THEN "get_event" ELSE "get_metric")
    /\ LET r == get_nowait(QueueOf(kind)) IN
        /\ SetQueue(kind, r.q)
        /\ IF r.ok
           THEN /\ wItem' = [wItem EXCEPT ![w] = r.item]
                /\ wSi' = [wSi EXCEPT ![w] = 1]
                /\ wPc' = [wPc EXCEPT ![w] = IF kind = "event" THEN "notify_event"
                                             ELSE "notify_metric"]
           ELSE /\ wPc' = [wPc EXCEPT ![w] = NextPhase(wPc[w])]
                /\ UNCHANGED <<wItem, wSi>>
    /\ UNCHANGED <<queueSize, pushed, subscribers, running, qStopEvent,
                   workerThread, qAppVars, pushVars, wCalled, wRaisedAt,
                   notified, evicted>>

\* Whether _notify_subscribers leaves its loop when a subscriber raised: the
\* except clause swallows the exception and the loop goes on.
SubscriberLoopEndsOnRaise(raised) == raised
SubscriberLoopEnds(raised) == FALSE

\* _notify_subscribers: subscriber(item) inside try/except for the next
\* subscriber of the list.
WorkerNotify(w) ==
    /\ InQueue
    /\ wPc[w] \in {"notify_event", "notify_metric"}
    /\ wSi[w] <= Len(subscribers)
    /\ wCalled' = [wCalled EXCEPT ![w] = Append(@, wSi[w])]
    /\ \E raised \in BOOLEAN :
        /\ wRaisedAt' = [wRaisedAt EXCEPT ![w] =
                            IF raised THEN @ \cup {wSi[w]} ELSE @]
        /\ wSi' = [wSi EXCEPT ![w] = IF SubscriberLoopEnds(raised)
                                     THEN Len(subscribers) + 1 ELSE @ + 1]
    /\ UNCHANGED <<queueSize, pushed, event_queue, metric_queue, subscribers,
                   running, qStopEvent, workerThread, qAppVars, pushVars,
                   wPc, wItem, notified, evicted>>

\* _notify_subscribers returns after the last subscriber and the loop body
\* goes on.
WorkerNotified(w) ==
    /\ InQueue
    /\ wPc[w] \in {"notify_event", "notify_metric"}
    /\ wSi[w] > Len(subscribers)
    /\ notified' = [notified EXCEPT ![wItem[w]] = Bump(@)]
    /\ UNCHANGED evicted
    /\ wPc' = [wPc EXCEPT ![w] = NextPhase(wPc[w])]
    /\ wItem' = [wItem EXCEPT ![w] = 0]
    /\ wSi' = [wSi EXCEPT ![w] = 0]
    /\ wCalled' = [wCalled EXCEPT ![w] = << >>]
    /\ wRaisedAt' = [wRaisedAt EXCEPT ![w] = {}]
    /\ UNCHANGED <<queueSize, pushed, event_queue, metric_queue, subscribers,
                   running, qStopEvent, workerThread, qAppVars, pushVars>>

\* The queue-based stream: pushing threads thr, the thread that subscribes,
\* starts and stops, and the worker.
Queue(thr, pushLimit, subLimit, slots) ==
    \/ \E t \in thr, k \in Kinds : PushPut(t, k, pushLimit)
    \/ \E t \in thr : PushEvict(t)
    \/ \E t \in thr : PushReput(t)
    \/ \E t \in thr : PushReturn(t)
    \/ Subscribe(subLimit)
    \/ QueueStart(slots)
    \/ QueueStartStopNoop
    \/ QueueStopSet
    \/ QueueStopJoin
    \/ QueueStopReturn
    \/ \E w \in WorkerIds : WorkerCheck(w)
    \/ \E w \in WorkerIds, k \in Kinds : WorkerGet(w, k)
    \/ \E w \in WorkerIds : WorkerNotify(w)
    \/ \E w \in WorkerIds : WorkerNotified(w)

NextQueue == Queue(Pushers, MaxPushes, MaxSubscribers, MaxQueueWorkers)

SpecQueue == InitQueueOnly /\ [][NextQueue]_vars

\* The same with threads that keep running: a worker or a pushing thread that
\* can take its next step takes it (subscribers return).
FairQueue ==
    /\ \A w \in WorkerIds :
        /\ WF_vars(WorkerCheck(w))
        /\ WF_vars(\E k \in Kinds : WorkerGet(w, k))
        /\ WF_vars(WorkerNotify(w))
        /\ WF_vars(WorkerNotified(w))
    /\ \A t \in Pushers :
        /\ WF_vars(PushEvict(t))
        /\ WF_vars(PushReput(t))
        /\ WF_vars(PushReturn(t))

SpecQueueFair == SpecQueue /\ FairQueue

\* A process that constructs a collector with its stream and a queue-based
\* stream.
InitStreams ==
    /\ built = {"pipeline", "queue"}
    /\ InitPipeline(Configs)
    /\ InitService({DefaultSvcConfig})
    /\ InitQueue({MaxQueueSize})
    /\ InitEmitter
    /\ InitStorage

\* The life cycle of both streams: one producer and one thread pushing
\* events, the thread that subscribes and calls start() and stop(), and the
\* background threads.
NextLifecycle ==
    \/ CollectDisabled("p1")
    \/ \E k \in Kinds : CollectAdmit("p1", k, MaxLifecycleRecords)
    \/ ListenerEnter("p1")
    \/ ListenerReturn("p1")
    \/ CollectThreshold("p1")
    \/ StreamStart(MaxLoops)
    \/ StreamStartAlive
    \/ StartRegister
    \/ StopSet
    \/ StopJoin
    \/ StopUnregister
    \/ StopReturn
    \/ \E l \in LoopIds : LoopCheck(l)
    \/ \E l \in LoopIds : LoopFlush(l)
    \/ \E l \in LoopIds : LoopDeliver(l)
    \/ \E l \in LoopIds : LoopWait(l)
    \/ PushPut("q1", "event", MaxLifecyclePushes)
    \/ PushReturn("q1")
    \/ Subscribe(MaxLifecycleSubscribers)
    \/ QueueStart(MaxQueueWorkers)
    \/ QueueStartStopNoop
    \/ QueueStopSet
    \/ QueueStopJoin
    \/ QueueStopReturn
    \/ \E w \in WorkerIds : WorkerCheck(w)
    \/ \E w \in WorkerIds, k \in Kinds : WorkerGet(w, k)
    \/ \E w \in WorkerIds : WorkerNotify(w)
    \/ \E w \in WorkerIds : WorkerNotified(w)

SpecLifecycle == InitStreams /\ [][NextLifecycle]_vars

\* A process that feeds both ingestion paths: one producer thread on the
\* collector and its stream, one thread on the service.
NextIngest ==
    \/ Pipeline({"p1"}, MaxIngestRecords, MaxStreamUserListeners,
                MaxPipelineLoops, {"c1"}, MaxConsumers)
    \/ Service({"s1"}, MaxIngestEmits, MaxIngestCallbacks)

SpecIngest == Init /\ [][NextIngest]_vars

\* A process that uses the collector with listeners and the service with
\* callbacks.
NextNotify ==
    \/ Collector({"p1"}, MaxNotifyRecords, MaxUserListeners)
    \/ Service({"s1"}, MaxEmits, MaxCallbacks)

SpecNotify == Init /\ [][NextNotify]_vars

\* A process that constructs a TelemetryService and a queue-based
\* TelemetryStream: an emitting thread, a retrieving thread, a pushing thread
\* and the worker of the stream.
InitBuffers ==
    /\ built = {"service", "queue"}
    /\ InitPipeline({DefaultConfig})
    /\ InitService(SvcConfigs)
    /\ InitQueue(1 .. MaxQueueSize)
    /\ InitEmitter
    /\ InitStorage

NextBuffers ==
    \/ SvcStart
    \/ SvcEmit("s1", MaxBufferEmits)
    \/ DcPut("s1")
    \/ DcCount("s1")
    \/ EmitDone("s1")
    \/ Retriever(1 .. MaxBatch)
    \/ \E k \in Kinds : PushPut("q1", k, MaxBufferPushes)
    \/ PushEvict("q1")
    \/ PushReput("q1")
    \/ PushReturn("q1")
    \/ Subscribe(MaxLifecycleSubscribers)
    \/ QueueStart(MaxQueueWorkers)
    \/ \E w \in WorkerIds : WorkerCheck(w)
    \/ \E w \in WorkerIds, k \in Kinds : WorkerGet(w, k)
    \/ \E w \in WorkerIds : WorkerNotify(w)
    \/ \E w \in WorkerIds : WorkerNotified(w)

SpecBuffers == InitBuffers /\ [][NextBuffers]_vars

\* ------------------------------------------------- EventEmitter (events.py)

\* Where emit goes after callback i of n returned or raised: the call has no
\* try, so an exception leaves the loop and emit and reaches the caller.
EmitAfterCallback(raised, i, n) ==
    IF raised THEN [pc |-> "done", ret |-> "raised"]
    ELSE IF i < n THEN [pc |-> "call", ret |-> "none"]
    ELSE [pc |-> "done", ret |-> "None"]

\* get_events: a copy of self._events, or its events of the given type.
get_events_all(events, ty) == events
get_events(events, ty) ==
    IF ty = "None" THEN events
    ELSE SelectSeq(events, LAMBDA e : e.type = ty)

\* on(event_type, callback)
EmitterOn(ty, limit) ==
    /\ InEmitter
    /\ ePc = "idle"
    /\ Len(emListeners[ty]) < limit
    /\ emListeners' = [emListeners EXCEPT ![ty] = Append(@, "cb")]
    /\ UNCHANGED <<emEvents, emitted, emCleared, ePc, eCur, eCi, eInvoked,
                   eRaisedAt, eRet, eArg, eGot>>

\* emit(event): self._events.append(event), then the loop over the
\* callbacks of the event's type starts, if there is any.
EmitterEmit(ty, limit) ==
    /\ InEmitter
    /\ ePc = "idle"
    /\ Len(emitted) < limit
    /\ eCur' = [id |-> Len(emitted) + 1, type |-> ty]
    /\ emitted' = Append(emitted, eCur')
    /\ emEvents' = Append(emEvents, eCur')
    /\ IF emListeners[ty] # << >>
       THEN ePc' = "call" /\ eCi' = 1 /\ eRet' = "none"
       ELSE ePc' = "done" /\ eCi' = 0 /\ eRet' = "None"
    /\ UNCHANGED <<emListeners, emCleared, eInvoked, eRaisedAt, eArg, eGot>>

\* callback(event) for the next callback of the list.
EmitterCall ==
    /\ InEmitter
    /\ ePc = "call"
    /\ eInvoked' = eInvoked \cup {eCi}
    /\ \E raised \in BOOLEAN :
        LET o == EmitAfterCallback(raised, eCi, Len(emListeners[eCur.type])) IN
        /\ eRaisedAt' = IF raised THEN eRaisedAt \cup {eCi} ELSE eRaisedAt
        /\ ePc' = o.pc
        /\ eRet' = o.ret
        /\ eCi' = IF o.pc = "call" THEN eCi + 1 ELSE eCi
    /\ UNCHANGED <<emListeners, emEvents, emitted, emCleared, eCur, eArg, eGot>>

\* emit has returned, or its exception has reached the caller, who goes on.
EmitterReturn ==
    /\ InEmitter
    /\ ePc = "done"
    /\ ePc' = "idle"
    /\ eCur' = NoEvent
    /\ eCi' = 0
    /\ eInvoked' = {}
    /\ eRaisedAt' = {}
    /\ eRet' = "none"
    /\ UNCHANGED <<emListeners, emEvents, emitted, emCleared, eArg, eGot>>

\* get_events(event_type), event_type None or a type.
EmitterGetEvents(ty) ==
    /\ InEmitter
    /\ ePc = "idle"
    /\ eArg' = ty
    /\ eGot' = get_events(emEvents, ty)
    /\ ePc' = "got"
    /\ UNCHANGED <<emListeners, emEvents, emitted, emCleared, eCur, eCi,
                   eInvoked, eRaisedAt, eRet>>

\* The caller is done with the list get_events returned.
EmitterGot ==
    /\ InEmitter
    /\ ePc = "got"
    /\ ePc' = "idle"
    /\ eArg' = "none"
    /\ eGot' = << >>
    /\ UNCHANGED <<emListeners, emEvents, emitted, emCleared, eCur, eCi,
                   eInvoked, eRaisedAt, eRet>>

\* clear(): self._events.clear()
EmitterClear ==
    /\ InEmitter
    /\ ePc = "idle"
    /\ emEvents' = << >>
    /\ emCleared' = Len(emitted)
    /\ UNCHANGED <<emListeners, emitted, ePc, eCur, eCi, eInvoked, eRaisedAt,
                   eRet, eArg, eGot>>

\* A process that constructs an EventEmitter and uses it from one thread.
InitEmitterOnly ==
    /\ built = {"emitter"}
    /\ InitPipeline({DefaultConfig})
    /\ InitService({DefaultSvcConfig})
    /\ InitQueue({MaxQueueSize})
    /\ InitEmitter
    /\ InitStorage

NextEmitter ==
    \/ \E ty \in EventTypes : EmitterOn(ty, MaxEmitterListeners)
    \/ \E ty \in EventTypes : EmitterEmit(ty, MaxEmitted)
    \/ EmitterCall
    \/ EmitterReturn
    \/ \E ty \in EventTypes \cup {"None"} : EmitterGetEvents(ty)
    \/ EmitterGot
    \/ EmitterClear

SpecEmitter == InitEmitterOnly /\ [][NextEmitter]_vars

\* ------------------------------------------------- storage.py

\* a <= b for two datetime values.
NotAfter(a, b) == a.sec < b.sec \/ (a.sec = b.sec /\ a.micro <= b.micro)

\* The truth value of an optional argument in `if start_time:` and
\* `if limit:`: None is false, a datetime is true, an int is true unless 0.
TruthyTime(o) == o # << >>
TruthyLimit(o) == o # << >> /\ o[1] # 0

\* MemoryStorage.retrieve: the two list comprehensions and the slice.
FromStrictly(recs, start) ==
    IF TruthyTime(start)
    THEN SelectSeq(recs, LAMBDA r : ~NotAfter(r.ts, start[1])) ELSE recs
From(recs, start) ==
    IF TruthyTime(start)
    THEN SelectSeq(recs, LAMBDA r : NotAfter(start[1], r.ts)) ELSE recs
Until(recs, end) ==
    IF TruthyTime(end)
    THEN SelectSeq(recs, LAMBDA r : NotAfter(r.ts, end[1])) ELSE recs
Slice(recs, limit) ==
    IF TruthyLimit(limit)
    THEN SubSeq(recs, 1, IF limit[1] < Len(recs) THEN limit[1] ELSE Len(recs))
    ELSE recs
mem_retrieve(events, metrics, start, end, limit) ==
    [events |-> Slice(Until(From(events, start), end), limit),
     metrics |-> Slice(Until(From(metrics, start), end), limit)]

\* datetime.isoformat() and dateutil.parser.parse: the text has a fraction
\* only when the microseconds are not zero.
isoformat(ts) == IF ts.micro = 0 THEN <<ts.sec>> ELSE <<ts.sec, ts.micro>>
parse_seconds(text) == [sec |-> text[1], micro |-> 0]
parse(text) ==
    [sec |-> text[1], micro |-> IF Len(text) > 1 THEN text[2] ELSE 0]

\* event_type.value and the JSON text of unit on the way out; on the way
\* back the value of an EventType becomes the member again, null is None.
ValueOf(x) ==
    CASE x = "EventType.INFO" -> "info"
      [] x = "EventType.ERROR" -> "error"
      [] x = "None" -> "null"
      [] OTHER -> x
FromValue(kind, v) ==
    IF kind = "event"
    THEN (IF v = "info" THEN "EventType.INFO" ELSE "EventType.ERROR")
    ELSE (IF v = "null" THEN "None" ELSE v)

\* _serialize_event / _serialize_metric and the line store writes.
NoData == [id |-> 0, timestamp |-> << >>, x |-> "absent"]
serialize_(r) == [id |-> r.id, timestamp |-> isoformat(r.ts), x |-> ValueOf(r.x)]
Line(r) == [json |-> TRUE, type |-> r.kind, data |-> serialize_(r)]
\* Lines retrieve cannot use: not JSON (a line cut short by a crash), no
\* 'type' key, no 'data' key.
BadLines == {[json |-> FALSE, type |-> "absent", data |-> NoData],
             [json |-> TRUE, type |-> "absent", data |-> NoData],
             [json |-> TRUE, type |-> "event", data |-> NoData]}

\* FileStorage.retrieve, one line: the exception of a bad line is caught and
\* the loop continues with the next line.
OnBadLineStop == "stop"
OnBadLine == "skip"
LineFails(l) == ~l.json \/ l.type = "absent" \/ l.data.id = 0
Parsed(l) == [id |-> l.data.id, ts |-> parse(l.data.timestamp), kind |-> l.type,
              x |-> FromValue(l.type, l.data.x)]

\* FileStorage.retrieve, the loop over the lines with its count and limit.
RECURSIVE Scan(_, _, _)
Scan(lines, limit, acc) ==
    IF lines = << >> THEN acc
    ELSE IF TruthyLimit(limit) /\ acc.count >= limit[1] THEN acc
    ELSE LET l == Head(lines) IN
         IF LineFails(l)
         THEN (IF OnBadLine = "skip" THEN Scan(Tail(lines), limit, acc)
               ELSE acc)
         ELSE IF l.type = "event"
         THEN Scan(Tail(lines), limit,
                   [acc EXCEPT !.events = Append(@, Parsed(l)),
                               !.count = @ + 1])
         ELSE Scan(Tail(lines), limit,
                   [acc EXCEPT !.metrics = Append(@, Parsed(l)),
                               !.count = @ + 1])

\* FileStorage.retrieve: start_time and end_time are not used; a missing
\* file gives the empty result.
file_retrieve(exists, lines, start, end, limit) ==
    IF ~exists THEN EmptyData
    ELSE LET a == Scan(lines, limit,
                       [events |-> << >>, metrics |-> << >>, count |-> 0])
         IN [events |-> a.events, metrics |-> a.metrics]

\* The TelemetryData values a caller hands to store: up to MaxBatchRecords
\* new records, numbered on from base.
Specs(kind) == [ts : Times, x : Extras(kind)]
SpecLists(kind) ==
    UNION {[1 .. n -> Specs(kind)] : n \in 0 .. MaxBatchRecords}
MakeBatch(evs, mts, base) ==
    [events |-> [i \in 1 .. Len(evs) |->
                    [id |-> base + i, ts |-> evs[i].ts, kind |-> "event",
                     x |-> evs[i].x]],
     metrics |-> [i \in 1 .. Len(mts) |->
                    [id |-> base + Len(evs) + i, ts |-> mts[i].ts,
                     kind |-> "metric", x |-> mts[i].x]]]
Batches2 == {b \in SpecLists("event") \X SpecLists("metric") :
                Len(b[1]) + Len(b[2]) \in 1 .. MaxBatchRecords}

\* MemoryStorage.store
MemStore(d, limit) ==
    /\ InMemory
    /\ stPc = "idle"
    /\ Len(written) + Len(d.events) + Len(d.metrics) <= limit
    /\ memEvents' = memEvents \o d.events
    /\ memMetrics' = memMetrics \o d.metrics
    /\ written' = written \o d.events \o d.metrics
    /\ UNCHANGED <<fileExists, fileLines, memCleared, intact, stPc, stReq, stRes>>

\* MemoryStorage.retrieve
MemRetrieve(start, end, limit) ==
    /\ InMemory
    /\ stPc = "idle"
    /\ stReq' = [target |-> "memory", start |-> start, end |-> end,
                 limit |-> limit]
    /\ stRes' = mem_retrieve(memEvents, memMetrics, start, end, limit)
    /\ stPc' = "got"
    /\ UNCHANGED <<memEvents, memMetrics, fileExists, fileLines, written,
                   memCleared, intact>>

\* MemoryStorage.clear
MemClear ==
    /\ InMemory
    /\ stPc = "idle"
    /\ memEvents' = << >>
    /\ memMetrics' = << >>
    /\ memCleared' = Len(written)
    /\ UNCHANGED <<fileExists, fileLines, written, intact, stPc, stReq, stRes>>

\* FileStorage.store: open(file_path, 'a') and one line per record, the
\* events first.
FileStore(d, limit) ==
    /\ InFile
    /\ stPc = "idle"
    /\ Len(written) + Len(d.events) + Len(d.metrics) <= limit
    /\ Len(fileLines) + Len(d.events) + Len(d.metrics) <= MaxLines
    /\ fileExists' = TRUE
    /\ fileLines' = fileLines \o [i \in 1 .. Len(d.events) |-> Line(d.events[i])]
                        \o [i \in 1 .. Len(d.metrics) |-> Line(d.metrics[i])]
    /\ written' = written \o d.events \o d.metrics
    /\ intact' = intact \cup {r.id : r \in Range(d.events) \cup Range(d.metrics)}
    /\ UNCHANGED <<memEvents, memMetrics, memCleared, stPc, stReq, stRes>>

\* FileStorage.retrieve
FileRetrieve(start, end, limit) ==
    /\ InFile
    /\ stPc = "idle"
    /\ stReq' = [target |-> "file", start |-> start, end |-> end,
                 limit |-> limit]
    /\ stRes' = file_retrieve(fileExists, fileLines, start, end, limit)
    /\ stPc' = "got"
    /\ UNCHANGED <<memEvents, memMetrics, fileExists, fileLines, written,
                   memCleared, intact>>

\* The caller is done with the result of retrieve.
RetrieveDone ==
    /\ "memory" \in built \/ "file" \in built
    /\ stPc = "got"
    /\ stPc' = "idle"
    /\ stReq' = NoRequest
    /\ stRes' = EmptyData
    /\ UNCHANGED <<built, othVars, memEvents, memMetrics, fileExists,
                   fileLines, written, memCleared, intact>>

\* The file is damaged outside the program (a crash while a line was being
\* written, an editor): line i becomes a bad line.
FileDamage(i, bad, limit) ==
    /\ InFile
    /\ stPc = "idle"
    /\ fileExists
    /\ i \in 1 .. Len(fileLines)
    /\ ~LineFails(fileLines[i])
    /\ Cardinality({k \in 1 .. Len(fileLines) : LineFails(fileLines[k])}) < limit
    /\ fileLines' = [fileLines EXCEPT ![i] = bad]
    /\ intact' = intact \ {fileLines[i].data.id}
    /\ UNCHANGED <<memEvents, memMetrics, fileExists, written, memCleared,
                   stPc, stReq, stRes>>

\* A bad line is added to the file after line i (i = 0: at the start).
FileInsert(i, bad, limit) ==
    /\ InFile
    /\ stPc = "idle"
    /\ fileExists
    /\ i \in 0 .. Len(fileLines)
    /\ Len(fileLines) < MaxLines
    /\ Cardinality({k \in 1 .. Len(fileLines) : LineFails(fileLines[k])}) < limit
    /\ fileLines' = SubSeq(fileLines, 1, i) \o <<bad>>
                        \o SubSeq(fileLines, i + 1, Len(fileLines))
    /\ UNCHANGED <<memEvents, memMetrics, fileExists, written, memCleared,
                   intact, stPc, stReq, stRes>>

\* A process that constructs a MemoryStorage, or one that constructs a
\* FileStorage on a path where no file exists.
InitStorageOnly ==
    /\ built \in {{"memory"}, {"file"}}
    /\ InitPipeline({DefaultConfig})
    /\ InitService({DefaultSvcConfig})
    /\ InitQueue({MaxQueueSize})
    /\ InitEmitter
    /\ InitStorage

NextStorage ==
    \/ \E b \in Batches2 :
        MemStore(MakeBatch(b[1], b[2], Len(written)), MaxStored)
    \/ \E st \in OptTimes, en \in OptTimes, lm \in OptLimits :
        MemRetrieve(st, en, lm)
    \/ MemClear
    \/ \E b \in Batches2 :
        FileStore(MakeBatch(b[1], b[2], Len(written)), MaxStored)
    \/ \E st \in OptTimes, en \in OptTimes, lm \in OptLimits :
        FileRetrieve(st, en, lm)
    \/ RetrieveDone
    \/ \E i \in 1 .. MaxLines, bad \in BadLines : FileDamage(i, bad, MaxBadLines)
    \/ \E i \in 0 .. MaxLines, bad \in BadLines : FileInsert(i, bad, MaxBadLines)

SpecStorage == InitStorageOnly /\ [][NextStorage]_vars

\* ------------------------------------------------- claims: collector and stream

\* C1: whenever the buffer can be observed (the lock is free, so that
\* get_buffer_size() can run), events plus metrics do not exceed
\* config.buffer_size.
C1_BufferBounded ==
    lock = "free" => get_buffer_size(buffer) <= config.buffer_size

\* C2: drop-newest.  When more than buffer_size records were collected and
\* no flush() call has returned a record yet, the batch that flush() returns
\* holds exactly the first buffer_size records collected.
C2_DropNewest ==
    [][(appPc = "idle" /\ appPc' = "flushed" /\ nextId > config.buffer_size
            /\ \A r \in Ids : returned[r] = 0)
        => DataIds(appBatch') = 1 .. config.buffer_size]_vars

LiveBatches == {appBatch} \cup {loopData[l] : l \in LoopIds}

\* C3: every record is returned by at most one flush() call, and a record
\* that a flush() call returned is not in the collector's buffer.
C3_FlushedOnce ==
    \A r \in Ids :
        /\ returned[r] <= 1
        /\ returned[r] >= 1 => r \notin DataIds(buffer)
        /\ (\E d \in LiveBatches : r \in DataIds(d)) => r \notin DataIds(buffer)

\* C3 witness: the application and the loop thread each hold a batch that its
\* flush() call returned while a producer is inside a collect call.
C3_Witness ==
    /\ appBatch # EmptyData
    /\ \E l \in LoopIds : loopData[l] # EmptyData
    /\ \E t \in Producers : pc[t] # "idle"

\* C4: when stop() has joined the terminated loop thread, every record
\* collected before stop() was called has been stored and sent to every
\* consumer, and is not in the buffer.
C4_StopDrains ==
    (appPc = "stop_unreg" /\ (\E l \in LoopIds : loopPc[l] = "dead")
        /\ \A l \in LoopIds : ~Alive(l))
    => \A r \in 1 .. stopSnap :
        /\ r \notin DataIds(buffer)
        /\ stored[r] >= 1
        /\ \A c \in Range(consumers) : consumed[c][r] >= 1

C8_FlushDrains ==
    [][(appPc = "idle" /\ appPc' = "flushed")
        => /\ appBatch' = buffer
           /\ get_buffer_size(appBatch') = get_buffer_size(buffer)
           /\ get_buffer_size(buffer') = 0]_vars

\* C8 witness: flush() has returned a batch of two or more records.
C8_Witness == appPc = "flushed" /\ get_buffer_size(appBatch) >= 2

\* C10: in realtime mode no consumer is passed the same record more than
\* once, the listener path and the flush path taken together.
C10_ConsumedOnce ==
    config.realtime_mode
    => \A c \in ConsumerNames : \A r \in Ids : consumed[c][r] <= 1

\* ------------------------------------------------- claims: failure isolation, disabled configuration, push

C7_DisabledIngestsNothing ==
    /\ ~config.enabled =>
        /\ get_buffer_size(buffer) = 0
        /\ \A t \in Producers : pc[t] = "idle" /\ invoked[t] = {}
        /\ appBatch = EmptyData
        /\ \A l \in LoopIds : loopData[l] = EmptyData
        /\ \A r \in Ids : returned[r] = 0 /\ stored[r] = 0
        /\ \A c \in ConsumerNames, r \in Ids : consumed[c][r] = 0
    /\ ~svcConfig.enabled =>
        /\ ~svcRunning
        /\ dcBuffer = << >>
        /\ dcCount = 0
        /\ \A t \in ServiceThreads :
            /\ sPc[t] \in {"idle", "done"}
            /\ sPc[t] = "done" => sRet[t] = <<FALSE>>
            /\ sInvoked[t] = {}

\* C7 witness: both configurations disabled; a collect call has returned
\* None with a listener registered, the stream's loop has flushed, and an
\* emit call has returned False with a callback registered.
C7_Witness ==
    /\ ~config.enabled
    /\ ret = "None"
    /\ listeners # << >>
    /\ \E l \in LoopIds : loopPc[l] = "wait"
    /\ ~svcConfig.enabled
    /\ sPc["s1"] = "done"
    /\ sRet["s1"] = <<FALSE>>
    /\ dcCallbacks # << >>

\* C9: when push_event / push_metric returns, one of its put_nowait calls has
\* put the item in the queue, and a call that found the queue full has
\* removed one item (the head of the queue).
C9_PushAdmits ==
    \A t \in Pushers :
        pPc[t] = "done" =>
            /\ pEnqueued[t]
            /\ pFull[t] => pEvicted[t] # 0

\* ------------------------------------------------- claims: life cycle of the streams

\* C11: a stop() whose join returned while the background thread was still
\* alive reports a value different from the one a clean stop() reports, on
\* both streams.
C11_StopReportsTimeout ==
    /\ (appPc = "stop_ret" /\ joinAlive = "alive") => stopRet # StopResult(FALSE)
    /\ (qAppPc = "stop_ret" /\ qJoinAlive = "alive")
            => qStopRet # QueueStopResult(FALSE)

\* C12: while a stream is running and its controlling thread is between
\* calls, no step starts a thread or registers a stream listener; a stop()
\* on a stream without thread (streaming.py) leaves the collector, the
\* consumers, the threads and the listener list as they are and ends with
\* the stop event set; while the queue-based stream is not running no stop()
\* gets past its first test; and no step of a stop() call delivers anything.
C12_StartStopIdempotent ==
    [][ /\ (appPc = "idle" /\ threadRef # 0 /\ Alive(threadRef))
            => /\ \A l \in LoopIds : ~Alive(l) => loopPc'[l] = loopPc[l]
               /\ Count(listeners', "stream") <= Count(listeners, "stream")
        /\ (appPc = "idle" /\ appPc' = "stop_unreg")
            => /\ UNCHANGED <<colVars, consumers, threadRef, loopPc, loopData, loopFault,
                             obsVars>>
               /\ stopEvent'
        /\ (appPc = "stop_unreg" /\ appPc' = "stop_ret" /\ joinAlive = "none")
            => UNCHANGED <<colVars, consumers, stopEvent, threadRef, loopPc,
                           loopData, loopFault, obsVars>>
        /\ (appPc \in {"stop_join", "stop_unreg", "stop_ret"} /\ appPc' # appPc)
            => UNCHANGED obsVars
        /\ (qAppPc = "idle" /\ running)
            => /\ workerThread' = workerThread
               /\ \A w \in WorkerIds : ~WorkerAlive(w) => wPc'[w] = wPc[w]
        /\ (qAppPc = "idle" /\ ~running)
            => /\ qAppPc' = "idle"
               /\ qStopEvent' = qStopEvent \/ running'
        /\ (qAppPc \in {"join", "stop_ret"} /\ qAppPc' # qAppPc)
            => UNCHANGED notified ]_vars

\* C12 witness: a second stop() is under way on the collector-driven stream
\* after a loop thread has run and ended, with start() called on the running
\* queue-based stream whose worker is up.
C12_Witness ==
    /\ appPc = "stop_unreg"
    /\ joinAlive = "none"
    /\ \E l \in LoopIds : loopPc[l] = "dead"
    /\ nextId > 0
    /\ qAppPc = "idle"
    /\ running
    /\ \E w \in WorkerIds : WorkerAlive(w)

\* ------------------------------------------------- claims: delivery by the background threads

\* C13: whatever storage.store and the consumers do (return or raise), the
\* delivery step of the loop hands the batch to the storage and to every
\* registered consumer, and the loop thread goes on to its interval wait.
C13_SinkFaultIsolated ==
    [][ \A l \in LoopIds :
            (loopPc[l] = "deliver" /\ loopPc'[l] # "deliver")
                => /\ loopPc'[l] = "wait"
                   /\ \A r \in DataIds(loopData[l]) :
                        /\ stored'[r] > stored[r] \/ stored[r] = CountCap
                        /\ \A c \in Range(consumers) :
                            \/ consumed'[c][r] > consumed[c][r]
                            \/ consumed[c][r] = CountCap ]_vars

\* C13 witness: a delivery in which storage.store and the first consumer
\* raised has handed its record to the second consumer, and the loop waits.
C13_Witness ==
    \E l \in LoopIds :
        /\ loopPc[l] = "wait"
        /\ loopFault[l].store
        /\ consumers = <<"c1", "c2">>
        /\ loopFault[l].bad = {"c1"}
        /\ \E r \in Ids : consumed["c2"][r] = 1 /\ stored[r] = 1

\* C14: when _notify_subscribers returns for a dequeued item, the
\* subscribers called with it are all the subscribers, each once, in
\* subscription order, whichever of them raised, and the worker goes on with
\* its loop; no item is dequeued twice.
C14_FanOutInOrder ==
    [][ \A w \in WorkerIds :
            (wPc[w] \in {"notify_event", "notify_metric"} /\ wPc'[w] # wPc[w])
                => /\ wCalled[w] = [i \in 1 .. Len(subscribers) |-> i]
                   /\ wPc'[w] = NextPhase(wPc[w])
                   /\ notified'[wItem[w]] = 1 ]_vars

\* C14 witness: the worker has called both subscribers with an item although
\* the first one raised.
C14_Witness ==
    \E w \in WorkerIds :
        /\ wPc[w] \in {"notify_event", "notify_metric"}
        /\ Len(subscribers) = 2
        /\ wCalled[w] = <<1, 2>>
        /\ 1 \in wRaisedAt[w]

\* C15: an item whose push call has returned while the stream is running is
\* eventually handed to all subscribers, unless the stream is stopped or a
\* push evicts the item first.
C15_PushedIsDelivered ==
    \A i \in QueueIds :
        (running /\ \E t \in Pushers : pPc[t] = "done" /\ pItem[t].id = i)
            ~> \/ notified[i] >= 1
               \/ ~running
               \/ i \in evicted

\* C16: while fewer than buffer_size records have been collected, a wake-up of
\* the stream's loop takes every record collected and not taken by an earlier
\* wake-up as one batch, storage.store is called with exactly that batch, no record is
\* stored twice, and a buffered record of a running stream is eventually
\* stored unless the stream is stopped.
C16_BatchPerWakeUp ==
    /\ [][\A l \in LoopIds :
            /\ (loopPc[l] = "flush" /\ loopPc'[l] # "flush"
                    /\ nextId < config.buffer_size)
                => /\ DataIds(loopData'[l]) = {r \in 1 .. nextId : returned[r] = 0}
                   /\ DataIds(loopData'[l]) # {} => loopPc'[l] = "deliver"
            /\ (loopPc[l] = "deliver" /\ loopPc'[l] # "deliver")
                => \A r \in Ids :
                       stored'[r] = IF r \in DataIds(loopData[l])
                                    THEN stored[r] + 1 ELSE stored[r]]_vars
    /\ [](\A r \in Ids : stored[r] <= 1)
    /\ \A r \in Ids :
           (r \in DataIds(buffer) /\ StreamRunning /\ ~stopEvent
                /\ nextId < config.buffer_size)
               ~> (stored[r] >= 1 \/ stopEvent \/ nextId >= config.buffer_size)

\* C16: three events collected before one wake-up are on their way to the
\* storage as one batch, none of them stored before.
C16_Witness ==
    \E l \in LoopIds :
        /\ loopPc[l] = "deliver"
        /\ loopData[l].events = <<1, 2, 3>>
        /\ loopData[l].metrics = << >>
        /\ config.buffer_size = MaxFlowBuffer
        /\ \A r \in 1 .. 3 : stored[r] = 0

\* ------------------------------------------------- claims: the Queue-backed buffers

\* C17: DataCollector.collect on a full buffer takes its step at once (it
\* does not wait for room) and returns False; the step leaves the buffer and
\* the event count as they were, and no callback is called for the event.
C17_FullCollectRejects ==
    /\ [](\A t \in ServiceThreads : sPc[t] = "collect" => ENABLED DcPut(t))
    /\ [][\A t \in ServiceThreads :
            (sPc[t] = "collect" /\ sPc'[t] # "collect"
                /\ Len(dcBuffer) >= svcConfig.buffer_size)
            => /\ sPc'[t] = "done"
               /\ sRet'[t] = <<FALSE>>
               /\ dcBuffer' = dcBuffer
               /\ dcCount' = dcCount
               /\ sInvoked'[t] = {}]_vars
    /\ [](\A t \in ServiceThreads :
            (sPc[t] = "done" /\ sRet[t] = <<FALSE>>) => sInvoked[t] = {})

\* C17: a collect call has returned False on a full buffer of a running
\* service that has a callback registered.
C17_Witness ==
    \E t \in ServiceThreads :
        /\ sPc[t] = "done"
        /\ sRet[t] = <<FALSE>>
        /\ sCur[t] # 0
        /\ svcRunning
        /\ dcCallbacks # << >>
        /\ Len(dcBuffer) = svcConfig.buffer_size
        /\ sCur[t] \notin Range(dcBuffer)

\* C18: with a configured size above zero, the DataCollector's buffer never
\* holds more than max_buffer_size events, and neither queue of the
\* queue-based stream holds more than buffer_size items.
C18_QueuesBounded ==
    /\ svcConfig.buffer_size > 0 => Len(dcBuffer) <= svcConfig.buffer_size
    /\ queueSize > 0 => /\ Len(event_queue) <= queueSize
                        /\ Len(metric_queue) <= queueSize

\* C18: all three queues are full while a collect call and a push call are
\* about to put one more item and the worker and a retrieve call are running.
C18_Witness ==
    /\ Len(dcBuffer) = svcConfig.buffer_size
    /\ Len(event_queue) = queueSize
    /\ Len(metric_queue) = queueSize
    /\ sPc["s1"] = "collect"
    /\ pPc["q1"] = "evict"
    /\ rPc["r1"] = "get"
    /\ running

\* ------------------------------------------------- claims: order and snapshots

Ordered(seq) == \A i, j \in 1 .. Len(seq) : i < j => seq[i] < seq[j]

\* The batches that exist: the buffer, the batch a flush() call returned to
\* the application or to the loop (which hands it to storage and consumers),
\* and the snapshots handed to the listeners.
Batches == {buffer, appBatch} \cup {loopData[l] : l \in LoopIds}
               \cup {snap[t] : t \in Producers}

\* C19: in every batch the events, and likewise the metrics, are in the order
\* in which collect_* added them to the buffer (records are numbered by the
\* add under the lock).
C19_AdmissionOrder ==
    \A d \in Batches : Ordered(d.events) /\ Ordered(d.metrics)

\* C19: the loop holds a batch of two events with a metric admitted between
\* them, on its way to storage and a consumer.
C19_Witness ==
    \E l \in LoopIds :
        /\ loopPc[l] = "deliver"
        /\ loopData[l].events = <<1, 3>>
        /\ loopData[l].metrics = <<2>>
        /\ consumers # << >>

\* C20 as stated: in realtime mode a collect call has invoked every
\* registered listener when it is about to return, and the snapshot it hands
\* to the listeners holds just the record of that call.
C20_SnapshotJustRecord ==
    \A t \in Producers :
        /\ (config.realtime_mode /\ pc[t] = "threshold")
            => invoked[t] = 1 .. Len(listeners)
        /\ pc[t] \in {"notify", "in_listener"}
            => DataIds(snap[t]) = {cur[t].id}

\* C20 amended: in realtime mode a collect call invokes every registered
\* listener exactly once before it returns, and the snapshot it hands to them
\* is a copy of the whole buffer at that moment: the record of that call
\* after every earlier record that no flush has taken yet.
C20_SnapshotIsBuffer ==
    /\ [](\A t \in Producers :
            /\ (config.realtime_mode /\ pc[t] = "threshold")
                => invoked[t] = 1 .. Len(listeners)
            /\ pc[t] \in {"notify", "in_listener"}
                => /\ snap[t] = buffer
                   /\ cur[t].id \in DataIds(snap[t]))
    /\ [][\A t \in Producers :
            /\ (pc[t] = "notify" /\ pc'[t] = "in_listener")
                => li[t] \notin invoked[t] /\ li[t] \in invoked'[t]
            /\ (pc[t] = "idle" /\ pc'[t] = "notify")
                => DataIds(snap'[t]) = DataIds(buffer) \cup {cur'[t].id}]_vars

\* C20: a realtime collect call is about to return after it invoked both
\* listeners with a snapshot of two records, the earlier one and its own.
C20_Witness ==
    \E t \in Producers :
        /\ config.realtime_mode
        /\ pc[t] = "threshold"
        /\ invoked[t] = {1, 2}
        /\ DataIds(snap[t]) = {1, 2}
        /\ cur[t].id = 2

\* ------------------------------------------------- claims: EventEmitter

\* C21: when a listener of the event's type raises, emit still calls the
\* remaining listeners of that type and does not end with the exception.
C21_EmitIsolatesListeners ==
    (ePc = "done" /\ eRaisedAt # {})
        => /\ eRet # "raised"
           /\ eInvoked = 1 .. Len(emListeners[eCur.type])

\* The events given to emit since the last clear(), in call order.
SinceClear == SubSeq(emitted, emCleared + 1, Len(emitted))

\* C30: get_events() returns the events emitted since the last clear() in
\* emission order, get_events(t) those of them of type t; the stored events
\* are always the ones emitted since the last clear(), none right after it,
\* and clear() leaves the listeners as they were.
C30_EventsSinceClear ==
    /\ [](/\ emEvents = SinceClear
          /\ ePc = "got" =>
                /\ eArg = "None" => eGot = SinceClear
                /\ eArg \in EventTypes =>
                      eGot = SelectSeq(SinceClear, LAMBDA e : e.type = eArg))
    /\ [][emCleared' # emCleared
            => emEvents' = << >> /\ emListeners' = emListeners]_vars

\* C30: after a clear() and two later emits of different types, the second
\* type with a listener, get_events(t) has returned the one event of type t.
C30_Witness ==
    /\ ePc = "got"
    /\ eArg = "task.created"
    /\ emCleared = 1
    /\ Len(emitted) = 3
    /\ Len(eGot) = 1
    /\ Len(emEvents) = 2
    /\ emListeners["task.created"] # << >>

\* C31: while emit runs, the event is already recorded and the listeners of
\* its type have been invoked in registration order, each once; when emit
\* ends, every listener of the event's type has been invoked, and no other.
C31_ListenersOncePerEvent ==
    /\ ePc \in {"call", "done"} => eCur \in Range(emEvents)
    /\ ePc = "call" => eInvoked = 1 .. (eCi - 1)
    /\ ePc = "done" => eInvoked = 1 .. Len(emListeners[eCur.type])

\* ------------------------------------------------- claims: storage backends

\* The records handed to store since the last clear(), in call order, and
\* the test start <= t <= end with an absent bound not restricting.
StoredSince == SubSeq(written, memCleared + 1, Len(written))
InBounds(t, start, end) ==
    /\ start = << >> \/ NotAfter(start[1], t)
    /\ end = << >> \/ NotAfter(t, end[1])
OfKind(recs, kind) == SelectSeq(recs, LAMBDA r : r.kind = kind)

\* C22: MemoryStorage.retrieve(start_time, end_time) returns exactly the
\* events and the metrics stored since the last clear() whose timestamp lies
\* within the inclusive bounds, in the order they were stored.
C22_MemoryRetrieveFilters ==
    (stPc = "got" /\ stReq.target = "memory" /\ stReq.limit = << >>)
        => \A kind \in Kinds :
            (IF kind = "event" THEN stRes.events ELSE stRes.metrics)
                = SelectSeq(OfKind(StoredSince, kind),
                            LAMBDA r : InBounds(r.ts, stReq.start, stReq.end))

\* C22: of three stored events, retrieve with a start time has returned the
\* two that are not earlier, the first and the third.
C22_Witness ==
    /\ stPc = "got"
    /\ stReq.target = "memory"
    /\ stReq.start # << >>
    /\ stReq.limit = << >>
    /\ Len(memEvents) = 3
    /\ Len(stRes.events) = 2
    /\ stRes.events[1].id = 1
    /\ stRes.events[2].id = 3
    /\ stRes.events[1].ts = stReq.start[1]

\* C23: FileStorage.retrieve(start_time, end_time) returns only records
\* whose timestamp lies within the inclusive bounds.
C23_FileRetrieveFilters ==
    (stPc = "got" /\ stReq.target = "file")
        => \A r \in Range(stRes.events) \cup Range(stRes.metrics) :
               InBounds(r.ts, stReq.start, stReq.end)

\* C24: retrieve(limit=L) with L >= 0 returns at most L records, events and
\* metrics together, from either storage.
C24_LimitCapsTotal ==
    (stPc = "got" /\ stReq.limit # << >>)
        => Len(stRes.events) + Len(stRes.metrics) <= stReq.limit[1]

\* C25: retrieve() with no filters on a file that only store calls wrote
\* returns the events and the metrics written, in the order written, each
\* equal to the stored record field by field.
C25_FileRoundTrip ==
    (/\ stPc = "got" /\ stReq.target = "file"
     /\ stReq.start = << >> /\ stReq.end = << >> /\ stReq.limit = << >>
     /\ \A k \in 1 .. Len(fileLines) : ~LineFails(fileLines[k])
     /\ intact = 1 .. Len(written))
        => /\ stRes.events = OfKind(written, "event")
           /\ stRes.metrics = OfKind(written, "metric")

\* C25: two store calls wrote an event, a metric and another event, one of
\* them with a timestamp that has microseconds, and retrieve() has returned.
C25_Witness ==
    /\ stPc = "got"
    /\ stReq = [target |-> "file", start |-> << >>, end |-> << >>,
                limit |-> << >>]
    /\ Len(fileLines) = 3
    /\ fileLines[1].type = "event"
    /\ fileLines[2].type = "metric"
    /\ fileLines[3].type = "event"
    /\ \E r \in Range(stRes.events) : r.ts.micro # 0
    /\ \E r \in Range(stRes.events) : r.ts.micro = 0
    /\ Len(stRes.events) = 2
    /\ Len(stRes.metrics) = 1

\* C26: FileStorage.retrieve returns every record whose line is undamaged,
\* in the order written, wherever the bad lines are, and the empty result
\* when the file does not exist.
C26_BadLinesSkipped ==
    (stPc = "got" /\ stReq.target = "file" /\ stReq.limit = << >>)
        => /\ stRes.events
                = SelectSeq(OfKind(written, "event"), LAMBDA r : r.id \in intact)
           /\ stRes.metrics
                = SelectSeq(OfKind(written, "metric"), LAMBDA r : r.id \in intact)
           /\ ~fileExists => stRes = EmptyData

\* C26: retrieve has returned the two records that follow a bad line.
C26_Witness ==
    /\ stPc = "got"
    /\ stReq.target = "file"
    /\ stReq.limit = << >>
    /\ Len(fileLines) >= 3
    /\ LineFails(fileLines[1])
    /\ Len(stRes.events) + Len(stRes.metrics) = 2

\* ------------------------------------------------- claims: conservation, threads, re-entrant listeners

\* No collect, flush or registration call is in progress.
Quiescent ==
    /\ \A t \in Producers : pc[t] = "idle"
    /\ appPc = "idle"
    /\ lock = "free"

\* C32: at every quiescent point the records created by collect calls are
\* the records still buffered plus the records that flush() calls returned.
C32_Conservation ==
    Quiescent
        => 1 .. nextId = DataIds(buffer) \cup {r \in Ids : returned[r] >= 1}

\* C33: at most one background thread of each TelemetryStream is alive.
C33_OneWorkerAlive ==
    /\ Cardinality({l \in LoopIds : Alive(l)}) <= 1
    /\ Cardinality({w \in WorkerIds : WorkerAlive(w)}) <= 1

\* C34: every collect_event / collect_metric call that has started returns,
\* also when a listener calls back into the collector.
C34_CollectReturns ==
    \A t \in Producers : (pc[t] # "idle") ~> (pc[t] = "idle")

\* stop() has been requested for a background thread that is still alive:
\* the stream either is inside that stop() call or has given the thread up
\* (streaming.py drops self._thread, stream.py has cleared self._running or
\* has replaced self._worker_thread).
StopRequested(l) == Alive(l) /\ (threadRef # l \/ stopEvent)
QueueStopRequested(w) == WorkerAlive(w) /\ (workerThread # w \/ ~running)

\* C35: a background thread for which stop() has been requested starts no
\* new loop iteration: from the head of its loop it only terminates.
C35_CooperativeStop ==
    [][/\ \A l \in LoopIds :
            (StopRequested(l) /\ loopPc[l] = "check")
                => loopPc'[l] \in {"check", "dead"}
       /\ \A w \in WorkerIds :
            (QueueStopRequested(w) /\ wPc[w] = "check")
                => wPc'[w] \in {"check", "dead"}]_vars

\* ------------------------------------------------- claims: TelemetryService and DataCollector

\* The step of retrieve that ends one turn of its loop.
RetrieveStep(r) ==
    rPc[r] = "get" /\ (rEvents'[r] # rEvents[r] \/ rPc'[r] # "get")

\* C36: emit gets past its test exactly when the service is enabled and
\* running; the put of its collect call appends exactly the emitted event
\* exactly when the buffer is not full, and the call then counts the event
\* once and returns True; a refused or rejected call returns False and leaves
\* buffer and count as they were.  stop() leaves the buffer as it is, and a
\* retrieve call on a stopped service still takes the event at the head.
C36_EmitContract ==
    /\ [][\A t \in ServiceThreads :
            /\ (sPc[t] = "idle" /\ sPc'[t] = "done")
                  => /\ ~svcConfig.enabled \/ ~svcRunning
                     /\ sRet'[t] = <<FALSE>>
                     /\ dcBuffer' = dcBuffer /\ dcCount' = dcCount
            /\ (sPc[t] = "idle" /\ sPc'[t] = "collect")
                  => svcConfig.enabled /\ svcRunning
            /\ (sPc[t] = "collect" /\ sPc'[t] # "collect")
                  => IF Len(dcBuffer) < svcConfig.buffer_size
                     THEN /\ dcBuffer' = Append(dcBuffer, sCur[t])
                          /\ sPc'[t] = "count"
                     ELSE /\ dcBuffer' = dcBuffer /\ dcCount' = dcCount
                          /\ sPc'[t] = "done" /\ sRet'[t] = <<FALSE>>
            /\ (sPc[t] = "count" /\ sPc'[t] # "count")
                  => dcCount' = dcCount + 1 /\ dcBuffer' = dcBuffer
            /\ (sPc[t] \in {"count", "callback"} /\ sPc'[t] = "done")
                  => sRet'[t] = <<TRUE>> /\ dcBuffer' = dcBuffer]_vars
    /\ [][svcRunning /\ ~svcRunning'
            => dcBuffer' = dcBuffer /\ dcCount' = dcCount]_vars
    /\ [][\A r \in Retrievers :
            (RetrieveStep(r) /\ ~svcRunning /\ dcBuffer # << >>)
                => /\ rEvents'[r] = Append(rEvents[r], Head(dcBuffer))
                   /\ dcBuffer' = Tail(dcBuffer)]_vars

\* C36: on a stopped service an emit call has been refused and a
\* get_events call has retrieved an event that was emitted before stop().
C36_Witness ==
    /\ svcConfig.enabled
    /\ ~svcRunning
    /\ rPc["r1"] = "ret"
    /\ rEvents["r1"] # << >>
    /\ \E t \in ServiceThreads :
           sPc[t] = "done" /\ sRet[t] = <<FALSE>> /\ sCur[t] = 0

\* C37: a retrieve call ends; its list never holds more than batch_size
\* events and holds them oldest first; each turn of its loop removes the
\* event at the head of the buffer and appends it, or ends the call with the
\* list as it is when the buffer is empty; no event is got twice, by the same
\* or by another retrieve call, and a retrieved event is not in the buffer.
C37_RetrieveFifoOnce ==
    /\ \A r \in Retrievers : (rPc[r] = "get") ~> (rPc[r] = "ret")
    /\ [](\A r \in Retrievers :
            /\ Len(rEvents[r]) <= rSize[r]
            /\ Ordered(rEvents[r])
            /\ Range(rEvents[r]) \cap Range(dcBuffer) = {})
    /\ [](\A e \in EventIds : taken[e] <= 1)
    /\ [](Range(rEvents["r1"]) \cap Range(rEvents["r2"]) = {})
    /\ [][\A r \in Retrievers :
            RetrieveStep(r)
                => IF dcBuffer = << >>
                   THEN /\ rEvents'[r] = rEvents[r]
                        /\ rPc'[r] = "ret"
                        /\ dcBuffer' = dcBuffer
                   ELSE /\ rEvents'[r] = Append(rEvents[r], Head(dcBuffer))
                        /\ dcBuffer' = Tail(dcBuffer)]_vars

\* C37: two concurrent retrieve calls are about to return, one with two
\* events that were not next to each other in the buffer, the other with the
\* event between them.
C37_Witness ==
    /\ rPc["r1"] = "ret" /\ rPc["r2"] = "ret"
    /\ Len(rEvents["r1"]) = 2
    /\ Len(rEvents["r2"]) = 1
    /\ rEvents["r1"][1] < rEvents["r2"][1]
    /\ rEvents["r2"][1] < rEvents["r1"][2]

\* The events that retrieve calls have returned: got from the buffer by a call
\* that has ended.
ReturnedByRetrieve ==
    {e \in EventIds : taken[e] > 0 /\ \A r \in Retrievers : e \notin Range(rEvents[r])}

\* No collect call and no retrieve call is under way.
NoCallInProgress ==
    /\ \A t \in ServiceThreads : sPc[t] \in {"idle", "done"}
    /\ \A r \in Retrievers : rPc[r] = "idle"

\* C38: the counter is never below the buffer's size plus the number of events
\* retrieve has returned, in the collector's fields and in every dictionary
\* get_stats is about to return, and equals it when no collect or retrieve
\* call is under way.
C38_StatsConsistent ==
    /\ dcCount >= Len(dcBuffer) + Cardinality(ReturnedByRetrieve)
    /\ stats.pc = "ret"
            => stats.total >= stats.size + Cardinality(ReturnedByRetrieve)
    /\ NoCallInProgress
            => dcCount = Len(dcBuffer) + Cardinality(ReturnedByRetrieve)

\* The timestamps of the records of a list never go down along the list.
TimeOrdered(seq) ==
    \A i, j \in 1 .. Len(seq) : i < j => recTime[seq[i]] <= recTime[seq[j]]

\* C39: in the batch a flush() call has returned to the application, the
\* timestamps of the events, and those of the metrics, never go down along
\* the list, with several producers collecting at the same time.
C39_BatchTimeOrdered ==
    appPc = "flushed" => TimeOrdered(appBatch.events) /\ TimeOrdered(appBatch.metrics)

====
